---------------------------- MODULE Spec2Model ----------------------------
(***************************************************************************)
(* Streaming reconstruction of the Nordlys Responses API event stream:     *)
(* NordlysChatLanguageModel.doStream (the TransformStream's start,          *)
(* transform and flush callbacks) together with the session-state helpers  *)
(* of parse-nordlys-stream-event.ts.                                        *)
(*                                                                         *)
(* Strings that are concatenated or parsed (deltas, buffers, argument      *)
(* strings) are sequences of one-character strings; identifiers and tags   *)
(* are TLA+ strings.  An optional value (null / undefined) is the empty    *)
(* sequence None, a present one is Some(v) = <<v>>.                        *)
(***************************************************************************)
EXTENDS Integers, Sequences, FiniteSets, TLC

(***************************************************************************)
(* Bounds of the explored input space.                                     *)
(***************************************************************************)
\* number of wire chunks one stream delivers before the transport closes
MaxEvents == 4

\* item identifiers the backend uses
Ids == {"a", "b"}

None == <<>>
Some(v) == <<v>>

(***************************************************************************)
(* Maps (JS Map / Record): functions whose domain is the set of keys.      *)
(***************************************************************************)
EmptyMap == <<>>

MapHas(m, k) == k \in DOMAIN m

MapSet(m, k, v) == [x \in (DOMAIN m) \cup {k} |-> IF x = k THEN v ELSE m[x]]

MapDelete(m, k) == [x \in (DOMAIN m) \ {k} |-> m[x]]

\* m.get(k) || ''  : the buffer, or the empty string when absent (or empty)
GetOrEmpty(m, k) == IF MapHas(m, k) THEN m[k] ELSE <<>>

\* the elements of a set of integers in ascending order (the order in which
\* Object.keys / Object.entries enumerate integer-like keys)
RECURSIVE Ascending(_)
Ascending(S) ==
    IF S = {} THEN <<>>
    ELSE LET lo == CHOOSE x \in S : \A y \in S : x <= y
         IN  <<lo>> \o Ascending(S \ {lo})

\* concatenation of a sequence of strings
RECURSIVE Concat(_)
Concat(ss) == IF ss = <<>> THEN <<>> ELSE Head(ss) \o Concat(Tail(ss))

(***************************************************************************)
(* JSON.parse restricted to the alphabet { "{", "}", "1", " " }: optional  *)
(* whitespace around either a number (a run of digits) or an empty object  *)
(* (whose braces may enclose whitespace).  Over this alphabet no other     *)
(* text is valid JSON.                                                     *)
(***************************************************************************)
JsonParses(s) ==
    LET ink == {k \in 1..Len(s) : s[k] # " "}
    IN  /\ ink # {}
        /\ LET lo == CHOOSE x \in ink : \A y \in ink : x <= y
               hi == CHOOSE x \in ink : \A y \in ink : x >= y
               t  == SubSeq(s, lo, hi)
           IN  \/ \A k \in 1..Len(t) : t[k] = "1"
               \/ /\ Len(t) >= 2
                  /\ t[1] = "{"
                  /\ t[Len(t)] = "}"
                  /\ \A k \in 2..(Len(t) - 1) : t[k] = " "

(***************************************************************************)
(* Session state of one doStream call.                                     *)
(***************************************************************************)
VARIABLES
    streamParseState,   \* NordlysStreamState: buffers and active sets
    finishReason,       \* [unified, raw]
    usage,              \* None or Some(NordlysResponsesUsage)
    responseId,         \* None (null) or Some(id)
    ongoingToolCalls,   \* output_index -> [toolName, toolCallId]
    itemTypes,          \* item id -> item type
    hasFunctionCall,    \* a tool-call event has been emitted
    activeReasoning,    \* item id -> [encryptedContent, summaryParts]
    serviceTier,        \* None (undefined) or Some(tier)
    callOptions,        \* providerStore, store, includeRawChunks, warnings
    out,                \* lifecycle events enqueued on the controller so far
    wire,               \* chunks the transform callback has consumed so far
    closed,             \* flush has run
    cancelled,          \* the consumer has cancelled the readable side
    alphabet,           \* the chunks the backend may send on this stream
    cur,                \* the doStream call whose closure the names above denote
    ctx,                \* the closures of the other calls, by call name
    lag,                \* the step a call has taken and its solo run has not
    input,              \* the argument of a function or method under study
    output              \* what the function or method has done with it

vars == <<streamParseState, finishReason, usage, responseId, ongoingToolCalls,
          itemTypes, hasFunctionCall, activeReasoning, serviceTier,
          callOptions, out, wire, closed, cancelled, alphabet, cur, ctx,
          lag, input, output>>

createStreamState ==
    [textBuffers          |-> EmptyMap,
     reasoningBuffers     |-> EmptyMap,
     toolCallBuffers      |-> EmptyMap,
     activeTextItems      |-> {},
     activeReasoningItems |-> {},
     activeToolCalls      |-> {}]


(***************************************************************************)
(* Wire events (ParseResult<NordlysResponseStreamEventUnion>): the chunks  *)
(* the event-source handler hands to transform.  A chunk that failed       *)
(* parsing or schema validation has success = FALSE.                       *)
(***************************************************************************)
Ok(value) == [success |-> TRUE, value |-> value]

FailedChunk == [success |-> FALSE, error |-> "parse-error"]

\* the position the backend gives an item in the response's output list
OutputIndex(i) == IF i = "a" THEN 0 ELSE 1

\* a message item as it is first announced: no content part yet
MessageItem(i) == [type |-> "message", id |-> i, content |-> <<>>]

ReasoningItem(i, enc) ==
    [type |-> "reasoning", id |-> i, encrypted_content |-> enc]

FunctionCallItem(i, args) ==
    [type |-> "function_call", id |-> i, call_id |-> "call-" \o i,
     name |-> "tool", arguments |-> args]

ItemAdded(item) ==
    Ok([type |-> "response.output_item.added", item |-> item,
        output_index |-> OutputIndex(item.id)])

ItemDone(i, t) ==
    Ok([type |-> "response.output_item.done", item |-> [type |-> t, id |-> i],
        output_index |-> OutputIndex(i)])

TextDelta(i, d) ==
    Ok([type |-> "response.output_text.delta", item_id |-> i, delta |-> d])

TextDone(i) == Ok([type |-> "response.output_text.done", item_id |-> i])

ReasoningTextDelta(i, d) ==
    Ok([type |-> "response.reasoning_text.delta", item_id |-> i, delta |-> d])

ArgsDelta(i, d) ==
    Ok([type |-> "response.function_call_arguments.delta", item_id |-> i,
        delta |-> d])

ArgsDone(i) ==
    Ok([type |-> "response.function_call_arguments.done", item_id |-> i])

SummaryPartAdded(i, k) ==
    Ok([type |-> "response.reasoning_summary_part.added", item_id |-> i,
        summary_index |-> k])

SummaryTextDelta(i, k, d) ==
    Ok([type |-> "response.reasoning_summary_text.delta", item_id |-> i,
        summary_index |-> k, delta |-> d])

SummaryTextDone(i, k) ==
    Ok([type |-> "response.reasoning_summary_text.done", item_id |-> i,
        summary_index |-> k])

SummaryPartDone(i, k) ==
    Ok([type |-> "response.reasoning_summary_part.done", item_id |-> i,
        summary_index |-> k])

\* part.type is output_text or reasoning_text (field text) or refusal (field
\* refusal); the text is kept in one field, txt
Part(t, s) == [type |-> t, txt |-> s]

ContentPartAdded(i, part) ==
    Ok([type |-> "response.content_part.added", item_id |-> i, part |-> part])

ContentPartDone(i, part) ==
    Ok([type |-> "response.content_part.done", item_id |-> i, part |-> part])

Created ==
    Ok([type |-> "response.created",
        response |-> [id |-> "resp-1", model |-> "m"]])

InProgress ==
    Ok([type |-> "response.in_progress",
        response |-> [id |-> "resp-1", status |-> "in_progress"]])

\* usage: input_tokens, output_tokens and the optional detail counts
Usage(inp, outp, cached, reasoning) ==
    [input_tokens |-> inp, output_tokens |-> outp,
     cached_tokens |-> cached, reasoning_tokens |-> reasoning]

Completed(status, u, tier) ==
    Ok([type |-> "response.completed",
        response |-> [id |-> "resp-1", status |-> status, usage |-> u,
                      service_tier |-> tier]])

ErrorEvent ==
    Ok([type |-> "response.error", error |-> [message |-> "boom"]])

(***************************************************************************)
(* The streams explored.  A stream is any sequence of at most MaxEvents    *)
(* chunks over one of the alphabets below, run under that alphabet's call  *)
(* options; the transport may close after any prefix.                      *)
(***************************************************************************)
X == <<"x">>
Y == <<"y">>

TextAlphabet ==
    {ItemAdded(MessageItem("a")), ItemAdded(MessageItem("b")),
     TextDelta("a", X), TextDelta("a", Y), ItemDone("a", "message"),
     ContentPartAdded("a", Part("output_text", X)),
     ContentPartDone("a", Part("output_text", Y)), TextDone("a")}

ToolAlphabet ==
    {ItemAdded(FunctionCallItem("a", <<>>)),
     ItemAdded(FunctionCallItem("a", <<"{", "}">>)),
     ArgsDelta("a", <<"{">>), ArgsDelta("a", <<"}">>), ArgsDelta("a", <<" ">>),
     ArgsDone("a"), ItemDone("a", "function_call"),
     ItemAdded(MessageItem("b")),
     Completed("completed", None, None)}

ReasoningAlphabet ==
    {ItemAdded(ReasoningItem("a", None)), ItemAdded(ReasoningItem("a", Some("E"))),
     SummaryPartAdded("a", 1), SummaryPartDone("a", 0), SummaryPartDone("a", 1),
     SummaryTextDelta("a", 0, X), SummaryTextDone("a", 0),
     ItemDone("a", "reasoning"), ItemAdded(MessageItem("b"))}

ReasoningTextAlphabet ==
    {ItemAdded(ReasoningItem("a", Some("E"))), ReasoningTextDelta("a", X),
     ReasoningTextDelta("a", Y), ReasoningTextDelta("b", X),
     ContentPartAdded("a", Part("reasoning_text", X)),
     ContentPartDone("a", Part("reasoning_text", Y)),
     ContentPartDone("a", Part("reasoning_text", <<>>)),
     SummaryPartAdded("a", 0), ItemDone("a", "reasoning")}

FinishAlphabet ==
    {Created, InProgress, FailedChunk, ErrorEvent,
     Completed("completed", Some(Usage(5, 2, None, None)), Some("default")),
     Completed("incomplete", None, None),
     Completed("completed", Some(Usage(5, 2, Some(7), Some(1))), None),
     ItemAdded(MessageItem("a")), TextDelta("a", X)}

MixedAlphabet ==
    {ItemAdded(MessageItem("a")), ItemAdded(ReasoningItem("a", None)),
     ItemAdded(FunctionCallItem("a", <<>>)),
     ItemDone("a", "message"), ItemDone("a", "reasoning"),
     TextDelta("a", X), ArgsDelta("a", <<"1">>), ArgsDone("b"),
     ContentPartAdded("a", Part("refusal", X)),
     ContentPartDone("a", Part("refusal", <<>>)),
     ContentPartAdded("b", Part("output_text", <<>>)),
     SummaryPartDone("a", 0)}

Streams ==
    {[alphabet |-> TextAlphabet,
      options  |-> [store |-> None, includeRawChunks |-> FALSE, warnings |-> <<>>]],
     [alphabet |-> ToolAlphabet,
      options  |-> [store |-> None, includeRawChunks |-> FALSE, warnings |-> <<>>]],
     [alphabet |-> ReasoningAlphabet,
      options  |-> [store |-> None, includeRawChunks |-> FALSE, warnings |-> <<>>]],
     [alphabet |-> ReasoningAlphabet,
      options  |-> [store |-> Some(FALSE), includeRawChunks |-> FALSE,
                    warnings |-> <<>>]],
     [alphabet |-> ReasoningTextAlphabet,
      options  |-> [store |-> Some(FALSE), includeRawChunks |-> FALSE,
                    warnings |-> <<>>]],
     [alphabet |-> FinishAlphabet,
      options  |-> [store |-> None, includeRawChunks |-> TRUE,
                    warnings |-> <<"assistant-as-user">>]],
     [alphabet |-> MixedAlphabet,
      options  |-> [store |-> Some(TRUE), includeRawChunks |-> FALSE,
                    warnings |-> <<>>]]}

(***************************************************************************)
(* Helpers of parse-nordlys-stream-event.ts.  Each takes the event and the *)
(* stream state and yields the new state with the fields of its result.    *)
(***************************************************************************)
handleOutputItemAdded(event, state) ==
    LET item == event.item
        none == [state |-> state,
                 shouldEmitTextStart |-> FALSE, textItemId |-> "",
                 shouldEmitReasoningStart |-> FALSE, reasoningItemId |-> "",
                 shouldEmitToolInputStart |-> FALSE, toolCallId |-> "",
                 toolName |-> ""]
    IN  IF item.type = "message" THEN
            IF item.id \notin state.activeTextItems
            THEN [none EXCEPT
                    !.state = [state EXCEPT
                                 !.activeTextItems = @ \cup {item.id},
                                 !.textBuffers = MapSet(@, item.id, <<>>)],
                    !.shouldEmitTextStart = TRUE,
                    !.textItemId = item.id]
            ELSE none
        ELSE IF item.type = "reasoning" THEN
            IF item.id \notin state.activeReasoningItems
            THEN [none EXCEPT
                    !.state = [state EXCEPT
                                 !.activeReasoningItems = @ \cup {item.id},
                                 !.reasoningBuffers = MapSet(@, item.id, <<>>)],
                    !.shouldEmitReasoningStart = TRUE,
                    !.reasoningItemId = item.id]
            ELSE none
        ELSE IF item.type = "function_call" THEN
            IF item.call_id \notin state.activeToolCalls
            THEN [none EXCEPT
                    !.state = [state EXCEPT
                                 !.activeToolCalls = @ \cup {item.call_id},
                                 !.toolCallBuffers =
                                     MapSet(@, item.id,
                                            [id |-> item.call_id,
                                             name |-> item.name,
                                             arguments |-> item.arguments])],
                    !.shouldEmitToolInputStart = TRUE,
                    !.toolCallId = item.call_id,
                    !.toolName = item.name]
            ELSE none
        ELSE none

\* a text-delta handler that puts the new delta in front of the buffer
handleTextDeltaPrepending(event, state) ==
    LET current == GetOrEmpty(state.textBuffers, event.item_id)
        updated == event.delta \o current
    IN  [state  |-> [state EXCEPT
                       !.textBuffers = MapSet(@, event.item_id, updated)],
         delta  |-> event.delta,
         itemId |-> event.item_id]

handleTextDelta(event, state) ==
    LET current == GetOrEmpty(state.textBuffers, event.item_id)
        updated == current \o event.delta
    IN  [state  |-> [state EXCEPT
                       !.textBuffers = MapSet(@, event.item_id, updated)],
         delta  |-> event.delta,
         itemId |-> event.item_id]

handleReasoningDelta(event, state) ==
    LET current == GetOrEmpty(state.reasoningBuffers, event.item_id)
        updated == current \o event.delta
    IN  [state  |-> [state EXCEPT
                       !.reasoningBuffers = MapSet(@, event.item_id, updated)],
         delta  |-> event.delta,
         itemId |-> event.item_id]

handleFunctionCallArgumentsDelta(event, state) ==
    IF ~MapHas(state.toolCallBuffers, event.item_id)
    THEN [state |-> state, delta |-> event.delta,
          toolCallId |-> event.item_id, currentArguments |-> event.delta]
    ELSE LET toolCall == state.toolCallBuffers[event.item_id]
             grown    == [toolCall EXCEPT !.arguments = @ \o event.delta]
         IN  [state |-> [state EXCEPT
                           !.toolCallBuffers = MapSet(@, event.item_id, grown)],
              delta |-> event.delta,
              toolCallId |-> event.item_id,
              currentArguments |-> grown.arguments]

\* a completion test that takes blank arguments for an argument-less call
isToolCallCompleteOrBlank(toolCallId, state) ==
    /\ MapHas(state.toolCallBuffers, toolCallId)
    /\ LET arguments == state.toolCallBuffers[toolCallId].arguments
       IN  \/ JsonParses(arguments)
           \/ \A k \in 1..Len(arguments) : arguments[k] = " "

isToolCallComplete(toolCallId, state) ==
    /\ MapHas(state.toolCallBuffers, toolCallId)
    /\ JsonParses(state.toolCallBuffers[toolCallId].arguments)

\* None (null) when the call has no buffer
getCompletedToolCall(toolCallId, state) ==
    IF ~MapHas(state.toolCallBuffers, toolCallId)
    THEN None
    ELSE LET toolCall == state.toolCallBuffers[toolCallId]
         IN  Some([toolCallId |-> toolCall.id,
                   toolName   |-> toolCall.name,
                   input      |-> toolCall.arguments])

handleContentPartAdded(event, state) ==
    LET part   == event.part
        itemId == event.item_id
        none   == [state |-> state,
                   shouldEmitTextStart |-> FALSE,
                   shouldEmitTextDelta |-> FALSE, textDelta |-> <<>>,
                   itemId |-> "",
                   shouldEmitReasoningDelta |-> FALSE, reasoningDelta |-> <<>>,
                   reasoningItemId |-> ""]
    IN  IF part.type \in {"output_text", "refusal"} THEN
            LET wasNotActive == itemId \notin state.activeTextItems
                opened  == IF wasNotActive
                           THEN [state EXCEPT
                                   !.activeTextItems = @ \cup {itemId},
                                   !.textBuffers = MapSet(@, itemId, <<>>)]
                           ELSE state
                current == GetOrEmpty(opened.textBuffers, itemId)
                updated == current \o part.txt
            IN  [none EXCEPT
                   !.state = [opened EXCEPT
                                !.textBuffers = MapSet(@, itemId, updated)],
                   !.shouldEmitTextStart = wasNotActive,
                   !.shouldEmitTextDelta = TRUE,
                   !.textDelta = part.txt,
                   !.itemId = itemId]
        ELSE IF part.type = "reasoning_text" THEN
            LET opened  == IF itemId \notin state.activeReasoningItems
                           THEN [state EXCEPT
                                   !.activeReasoningItems = @ \cup {itemId},
                                   !.reasoningBuffers = MapSet(@, itemId, <<>>)]
                           ELSE state
                current == GetOrEmpty(opened.reasoningBuffers, itemId)
                updated == current \o part.txt
            IN  [none EXCEPT
                   !.state = [opened EXCEPT
                                !.reasoningBuffers = MapSet(@, itemId, updated)],
                   !.shouldEmitReasoningDelta = TRUE,
                   !.reasoningDelta = part.txt,
                   !.reasoningItemId = itemId]
        ELSE none

handleContentPartDone(event, state) ==
    LET part   == event.part
        itemId == event.item_id
        none   == [state |-> state,
                   shouldEmitTextEnd |-> FALSE, itemId |-> "",
                   shouldEmitReasoningEnd |-> FALSE, reasoningItemId |-> ""]
    IN  IF part.type \in {"output_text", "refusal"} THEN
            IF part.txt # <<>>
            THEN [none EXCEPT
                    !.state = [state EXCEPT
                                 !.textBuffers =
                                     MapSet(@, itemId,
                                            GetOrEmpty(@, itemId) \o part.txt)]]
            ELSE none
        ELSE IF part.type = "reasoning_text" THEN
            LET appended == IF part.txt # <<>>
                            THEN [state EXCEPT
                                    !.reasoningBuffers =
                                        MapSet(@, itemId,
                                               GetOrEmpty(@, itemId) \o part.txt)]
                            ELSE state
            IN  IF itemId \in state.activeReasoningItems
                THEN [none EXCEPT !.state = appended,
                                  !.shouldEmitReasoningEnd = TRUE,
                                  !.reasoningItemId = itemId]
                ELSE [none EXCEPT !.state = appended]
        ELSE none

(***************************************************************************)
(* Collaborators whose source is not part of the repository snapshot.      *)
(***************************************************************************)
\* mapNordlysFinishReason({ finishReason, hasFunctionCall })
mapNordlysFinishReason(raw, hasCall) ==
    IF raw = None THEN (IF hasCall THEN "tool-calls" ELSE "stop")
    ELSE IF raw = Some("max_output_tokens") THEN "length"
    ELSE IF raw = Some("content_filter") THEN "content-filter"
    ELSE (IF hasCall THEN "tool-calls" ELSE "other")

\* a usage extraction that never reports a sub-split below zero
extractUsageFromCompletedClamping(event) ==
    LET u == event.response.usage
        AtLeastZero(n) == IF n < 0 THEN 0 ELSE n
    IN  IF u = None
        THEN [inputTokens  |-> [total |-> 0, cacheRead |-> None, noCache |-> None],
              outputTokens |-> [total |-> 0, reasoning |-> None, text |-> None]]
        ELSE LET v == u[1]
             IN  [inputTokens |->
                    [total     |-> v.input_tokens,
                     cacheRead |-> v.cached_tokens,
                     noCache   |-> IF v.cached_tokens # None
                                   THEN Some(AtLeastZero(v.input_tokens
                                                         - v.cached_tokens[1]))
                                   ELSE None],
                  outputTokens |->
                    [total     |-> v.output_tokens,
                     reasoning |-> v.reasoning_tokens,
                     text      |-> IF v.reasoning_tokens # None
                                   THEN Some(AtLeastZero(v.output_tokens
                                                         - v.reasoning_tokens[1]))
                                   ELSE None]]

\* extractUsageFromCompleted(event); an absent key of the result is None
extractUsageFromCompleted(event) ==
    LET u == event.response.usage
    IN  IF u = None
        THEN [inputTokens  |-> [total |-> 0, cacheRead |-> None, noCache |-> None],
              outputTokens |-> [total |-> 0, reasoning |-> None, text |-> None]]
        ELSE LET v == u[1]
             IN  [inputTokens |->
                    [total     |-> v.input_tokens,
                     cacheRead |-> v.cached_tokens,
                     noCache   |-> IF v.cached_tokens # None
                                   THEN Some(v.input_tokens - v.cached_tokens[1])
                                   ELSE None],
                  outputTokens |->
                    [total     |-> v.output_tokens,
                     reasoning |-> v.reasoning_tokens,
                     text      |-> IF v.reasoning_tokens # None
                                   THEN Some(v.output_tokens - v.reasoning_tokens[1])
                                   ELSE None]]

\* convertNordlysResponsesUsage(usage): totals with the sub-splits
convertNordlysResponsesUsage(u) ==
    IF u = None
    THEN [inputTokens  |-> [total |-> None, noCache |-> None, cacheRead |-> None],
          outputTokens |-> [total |-> None, text |-> None, reasoning |-> None]]
    ELSE LET v == u[1]
         IN  [inputTokens |->
                [total     |-> Some(v.input_tokens),
                 cacheRead |-> v.cached_tokens,
                 noCache   |-> IF v.cached_tokens # None
                               THEN Some(v.input_tokens - v.cached_tokens[1])
                               ELSE None],
              outputTokens |->
                [total     |-> Some(v.output_tokens),
                 reasoning |-> v.reasoning_tokens,
                 text      |-> IF v.reasoning_tokens # None
                               THEN Some(v.output_tokens - v.reasoning_tokens[1])
                               ELSE None]]

(***************************************************************************)
(* doStream: the state after construction and after start(controller).     *)
(***************************************************************************)
\* `${itemId}:${summaryIndex}`
PartId(i, k) == i \o ":" \o ToString(k)

\* a resolution that treats an unset store option as disabled
resolveStoreDefaultingOff(requested) ==
    IF requested = None THEN FALSE ELSE requested[1]

\* const store = finalNordlysOptions.store ?? true
resolveStore(requested) == IF requested = None THEN TRUE ELSE requested[1]

\* a start that announces the stream without the warnings of the call
StartEventsWithoutWarnings(warnings) ==
    <<[type |-> "stream-start", warnings |-> <<>>]>>

\* start(controller)
StartEvents(warnings) == <<[type |-> "stream-start", warnings |-> warnings]>>

Init ==
    /\ \E s \in Streams :
          /\ alphabet = s.alphabet
          /\ callOptions = [providerStore    |-> s.options.store,
                            store            |-> resolveStore(s.options.store),
                            includeRawChunks |-> s.options.includeRawChunks,
                            warnings         |-> s.options.warnings]
          /\ out = StartEvents(s.options.warnings)
    /\ streamParseState = createStreamState
    /\ finishReason = [unified |-> "other", raw |-> None]
    /\ usage = None
    /\ responseId = None
    /\ ongoingToolCalls = EmptyMap
    /\ itemTypes = EmptyMap
    /\ hasFunctionCall = FALSE
    /\ activeReasoning = EmptyMap
    /\ serviceTier = None
    /\ wire = <<>>
    /\ closed = FALSE
    /\ cancelled = FALSE
    /\ cur = "A"
    /\ ctx = <<>>
    /\ lag = <<>>
    /\ input = <<>>
    /\ output = <<>>

(***************************************************************************)
(* Several doStream calls.  Each call declares its session state in its    *)
(* own invocation, so a call is a closure of its own: the state variables  *)
(* denote the closure of call cur and ctx holds the closures of the other  *)
(* calls.  Beside calls A and B run in any interleaving, soloA and soloB   *)
(* consume the wire events of A and of B with no other call about: after   *)
(* each step of a call, lag holds the step until the solo run has taken it.*)
(***************************************************************************)
MaxPairEvents == 2

Calls == {"A", "B"}
OtherCall(c) == IF c = "A" THEN "B" ELSE "A"
SoloOf(c) == IF c = "A" THEN "soloA" ELSE "soloB"
CallOf(c) == IF c = "soloA" THEN "A" ELSE "B"
Paired == DOMAIN ctx # {}

\* the closure of the current call
Closure ==
    [streamParseState |-> streamParseState, finishReason |-> finishReason,
     usage |-> usage, responseId |-> responseId,
     ongoingToolCalls |-> ongoingToolCalls, itemTypes |-> itemTypes,
     hasFunctionCall |-> hasFunctionCall, activeReasoning |-> activeReasoning,
     serviceTier |-> serviceTier, callOptions |-> callOptions,
     out |-> out, wire |-> wire, closed |-> closed, cancelled |-> cancelled,
     alphabet |-> alphabet]

\* the next step runs in the closure of call c
Enter(c) ==
    /\ ctx' = [ctx EXCEPT ![cur] = Closure, ![c] = <<>>]
    /\ cur' = c
    /\ streamParseState' = ctx[c].streamParseState
    /\ finishReason' = ctx[c].finishReason
    /\ usage' = ctx[c].usage
    /\ responseId' = ctx[c].responseId
    /\ ongoingToolCalls' = ctx[c].ongoingToolCalls
    /\ itemTypes' = ctx[c].itemTypes
    /\ hasFunctionCall' = ctx[c].hasFunctionCall
    /\ activeReasoning' = ctx[c].activeReasoning
    /\ serviceTier' = ctx[c].serviceTier
    /\ callOptions' = ctx[c].callOptions
    /\ out' = ctx[c].out
    /\ wire' = ctx[c].wire
    /\ closed' = ctx[c].closed
    /\ cancelled' = ctx[c].cancelled
    /\ alphabet' = ctx[c].alphabet
    /\ UNCHANGED <<input, output>>

\* a step is taken by a call when its solo run has caught up, and by a solo
\* run when it is the step its call has just taken
Scheduled(step) ==
    IF ~Paired THEN TRUE
    ELSE IF cur \in Calls
         THEN /\ lag = <<>>
              /\ step.op = "transform" =>
                    Len(wire) + Len(ctx[OtherCall(cur)].wire) < MaxPairEvents
         ELSE lag = <<step>>

Recorded(step) ==
    IF Paired /\ cur \in Calls THEN <<step>> ELSE <<>>

(***************************************************************************)
(* transform(chunk, controller): one action per branch of the if / else-if *)
(* chain.  Accepts is the transport handing over one more chunk; Deliver   *)
(* enqueues the raw chunk (when asked for) and then the branch's events.   *)
(***************************************************************************)
Accepts(chunk) ==
    /\ ~closed
    /\ ~cancelled
    /\ Len(wire) < MaxEvents
    /\ chunk \in alphabet
    /\ Scheduled([op |-> "transform", chunk |-> chunk])

RawEvents == IF callOptions.includeRawChunks THEN <<[type |-> "raw"]>> ELSE <<>>

Deliver(chunk, events) ==
    /\ out' = out \o RawEvents \o events
    /\ wire' = Append(wire, chunk)
    /\ lag' = Recorded([op |-> "transform", chunk |-> chunk])
    /\ UNCHANGED <<callOptions, closed, cancelled, alphabet, cur, ctx, input,
                   output>>

IsType(chunk, t) == chunk.success /\ chunk.value.type = t

\* a failed-chunk branch that also throws the accumulated stream state away
TransformFailedChunkResetting(chunk) ==
    /\ Accepts(chunk)
    /\ ~chunk.success
    /\ finishReason' = [unified |-> "error", raw |-> None]
    /\ streamParseState' = createStreamState
    /\ Deliver(chunk, <<[type |-> "error", error |-> chunk.error]>>)
    /\ UNCHANGED <<usage, responseId, ongoingToolCalls,
                   itemTypes, hasFunctionCall, activeReasoning, serviceTier>>

\* a failed-chunk branch that leaves the finish reason as it was
TransformFailedChunkKeepingReason(chunk) ==
    /\ Accepts(chunk)
    /\ ~chunk.success
    /\ Deliver(chunk, <<[type |-> "error", error |-> chunk.error]>>)
    /\ UNCHANGED <<streamParseState, finishReason, usage, responseId,
                   ongoingToolCalls, itemTypes, hasFunctionCall,
                   activeReasoning, serviceTier>>

\* if (!chunk.success)
TransformFailedChunk(chunk) ==
    /\ Accepts(chunk)
    /\ ~chunk.success
    /\ finishReason' = [unified |-> "error", raw |-> None]
    /\ Deliver(chunk, <<[type |-> "error", error |-> chunk.error]>>)
    /\ UNCHANGED <<streamParseState, usage, responseId, ongoingToolCalls,
                   itemTypes, hasFunctionCall, activeReasoning, serviceTier>>

\* the events the output_item.added branch enqueues, given the helper's result
ItemAddedEvents(value, result) ==
    LET item == value.item
    IN  IF item.type = "function_call"
        THEN <<[type |-> "tool-input-start", id |-> item.id,
                toolName |-> item.name]>>
        ELSE IF item.type = "message"
        THEN IF result.shouldEmitTextStart /\ result.textItemId # ""
             THEN <<[type |-> "text-start", id |-> result.textItemId,
                     providerMetadata |-> [itemId |-> item.id]]>>
             ELSE <<>>
        ELSE IF item.type = "reasoning"
        THEN IF result.shouldEmitReasoningStart /\ result.reasoningItemId # ""
             THEN <<[type |-> "reasoning-start", id |-> PartId(item.id, 0),
                     providerMetadata |->
                        [itemId |-> item.id,
                         reasoningEncryptedContent |-> item.encrypted_content]]>>
             ELSE <<>>
        ELSE <<>>

\* isResponseOutputItemAddedChunk(value)
TransformOutputItemAdded(chunk) ==
    /\ Accepts(chunk)
    /\ IsType(chunk, "response.output_item.added")
    /\ LET value  == chunk.value
           item   == value.item
           result == IF item.type \in {"message", "reasoning"}
                     THEN handleOutputItemAdded(value, streamParseState)
                     ELSE [state |-> streamParseState]
       IN  /\ itemTypes' = MapSet(itemTypes, item.id, item.type)
           /\ ongoingToolCalls' =
                 IF item.type = "function_call"
                 THEN MapSet(ongoingToolCalls, value.output_index,
                             [toolName |-> item.name, toolCallId |-> item.id])
                 ELSE ongoingToolCalls
           /\ activeReasoning' =
                 IF item.type = "reasoning"
                 THEN MapSet(activeReasoning, item.id,
                             [encryptedContent |-> item.encrypted_content,
                              summaryParts |-> (0 :> "active")])
                 ELSE activeReasoning
           /\ streamParseState' = result.state
           /\ Deliver(chunk, ItemAddedEvents(value, result))
    /\ UNCHANGED <<finishReason, usage, responseId, hasFunctionCall, serviceTier>>

\* a selection that closes every part of the registry, concluded ones too
AllSummaryParts(summaryParts) == Ascending(DOMAIN summaryParts)

\* the summary parts item-done closes: those active or can-conclude, in key order
OpenSummaryParts(summaryParts) ==
    Ascending({k \in DOMAIN summaryParts :
                  summaryParts[k] \in {"active", "can-conclude"}})

\* the events the output_item.done branch enqueues for an item of type itemType
ItemDoneEvents(itemId, itemType) ==
    IF itemType = "message"
    THEN <<[type |-> "text-end", id |-> itemId,
            providerMetadata |-> [itemId |-> itemId]]>>
    ELSE IF itemType = "reasoning" /\ MapHas(activeReasoning, itemId)
    THEN LET ks == OpenSummaryParts(activeReasoning[itemId].summaryParts)
         IN  [n \in 1..Len(ks) |->
                [type |-> "reasoning-end", id |-> PartId(itemId, ks[n]),
                 providerMetadata |-> [itemId |-> itemId]]]
    ELSE <<>>

\* an output_item.done branch that trusts the done event's own item type
TransformOutputItemDoneByPayload(chunk) ==
    /\ Accepts(chunk)
    /\ IsType(chunk, "response.output_item.done")
    /\ LET itemId   == chunk.value.item.id
           itemType == chunk.value.item.type
       IN  /\ itemTypes' = MapSet(itemTypes, itemId, itemType)
           /\ streamParseState' =
                 IF itemType = "message"
                 THEN [streamParseState EXCEPT !.activeTextItems = @ \ {itemId}]
                 ELSE streamParseState
           /\ activeReasoning' =
                 IF itemType = "reasoning" /\ MapHas(activeReasoning, itemId)
                 THEN MapDelete(activeReasoning, itemId)
                 ELSE activeReasoning
           /\ Deliver(chunk, ItemDoneEvents(itemId, itemType))
    /\ UNCHANGED <<finishReason, usage, responseId, ongoingToolCalls,
                   hasFunctionCall, serviceTier>>

\* isResponseOutputItemDoneChunk(value)
TransformOutputItemDone(chunk) ==
    /\ Accepts(chunk)
    /\ IsType(chunk, "response.output_item.done")
    /\ LET itemId   == chunk.value.item.id
           tracked  == IF MapHas(itemTypes, itemId)
                       THEN itemTypes
                       ELSE MapSet(itemTypes, itemId, chunk.value.item.type)
           itemType == tracked[itemId]
       IN  /\ itemTypes' = tracked
           /\ streamParseState' =
                 IF itemType = "message"
                 THEN [streamParseState EXCEPT !.activeTextItems = @ \ {itemId}]
                 ELSE streamParseState
           /\ activeReasoning' =
                 IF itemType = "reasoning" /\ MapHas(activeReasoning, itemId)
                 THEN MapDelete(activeReasoning, itemId)
                 ELSE activeReasoning
           /\ Deliver(chunk, ItemDoneEvents(itemId, itemType))
    /\ UNCHANGED <<finishReason, usage, responseId, ongoingToolCalls,
                   hasFunctionCall, serviceTier>>

\* tool-input-end and tool-call of a call found complete: the events, the
\* stream state and the hasFunctionCall flag after the completion transition
CompleteToolCall(toolCallId, state, flag) ==
    LET toolCall == getCompletedToolCall(toolCallId, state)
    IN  [events |-> <<[type |-> "tool-input-end", id |-> toolCallId]>> \o
                    (IF toolCall # None
                     THEN <<[type |-> "tool-call",
                             toolCallId |-> toolCall[1].toolCallId,
                             toolName   |-> toolCall[1].toolName,
                             input      |-> toolCall[1].input]>>
                     ELSE <<>>),
         state  |-> [state EXCEPT !.activeToolCalls = @ \ {toolCallId}],
         flag   |-> flag \/ toolCall # None]

\* isResponseFunctionCallArgumentsDeltaChunk(value)
TransformFunctionCallArgumentsDelta(chunk) ==
    /\ Accepts(chunk)
    /\ IsType(chunk, "response.function_call_arguments.delta")
    /\ LET r     == handleFunctionCallArgumentsDelta(chunk.value, streamParseState)
           delta == <<[type |-> "tool-input-delta", id |-> r.toolCallId,
                       delta |-> r.delta]>>
           done  == CompleteToolCall(r.toolCallId, r.state, hasFunctionCall)
       IN  IF isToolCallComplete(r.toolCallId, r.state)
           THEN /\ streamParseState' = done.state
                /\ hasFunctionCall' = done.flag
                /\ Deliver(chunk, delta \o done.events)
           ELSE /\ streamParseState' = r.state
                /\ hasFunctionCall' = hasFunctionCall
                /\ Deliver(chunk, delta)
    /\ UNCHANGED <<finishReason, usage, responseId, ongoingToolCalls, itemTypes,
                   activeReasoning, serviceTier>>

\* value.type === 'response.function_call_arguments.done'
TransformFunctionCallArgumentsDone(chunk) ==
    /\ Accepts(chunk)
    /\ IsType(chunk, "response.function_call_arguments.done")
    /\ LET done == CompleteToolCall(chunk.value.item_id, streamParseState,
                                    hasFunctionCall)
       IN  /\ streamParseState' = done.state
           /\ hasFunctionCall' = done.flag
           /\ Deliver(chunk, done.events)
    /\ UNCHANGED <<finishReason, usage, responseId, ongoingToolCalls, itemTypes,
                   activeReasoning, serviceTier>>

\* isResponseCreatedChunk(value)
TransformResponseCreated(chunk) ==
    /\ Accepts(chunk)
    /\ IsType(chunk, "response.created")
    /\ responseId' = Some(chunk.value.response.id)
    /\ Deliver(chunk, <<[type |-> "response-metadata",
                         id |-> chunk.value.response.id,
                         modelId |-> chunk.value.response.model]>>)
    /\ UNCHANGED <<streamParseState, finishReason, usage, ongoingToolCalls,
                   itemTypes, hasFunctionCall, activeReasoning, serviceTier>>

\* the events the output_text.delta branch enqueues
TextDeltaEvents(result) ==
    <<[type |-> "text-delta", id |-> result.itemId, delta |-> result.delta]>>

\* isTextDeltaChunk(value)
TransformTextDelta(chunk) ==
    /\ Accepts(chunk)
    /\ IsType(chunk, "response.output_text.delta")
    /\ LET r == handleTextDelta(chunk.value, streamParseState)
       IN  /\ streamParseState' = r.state
           /\ Deliver(chunk, TextDeltaEvents(r))
    /\ UNCHANGED <<finishReason, usage, responseId, ongoingToolCalls, itemTypes,
                   hasFunctionCall, activeReasoning, serviceTier>>

\* value.type === 'response.reasoning_text.delta'
TransformReasoningTextDelta(chunk) ==
    /\ Accepts(chunk)
    /\ IsType(chunk, "response.reasoning_text.delta")
    /\ LET r == handleReasoningDelta(chunk.value, streamParseState)
       IN  /\ streamParseState' = r.state
           /\ Deliver(chunk, <<[type |-> "reasoning-delta", id |-> r.itemId,
                                delta |-> r.delta]>>)
    /\ UNCHANGED <<finishReason, usage, responseId, ongoingToolCalls, itemTypes,
                   hasFunctionCall, activeReasoning, serviceTier>>

\* the can-conclude parts a new summary part concludes, in key order; the new
\* part itself has just been marked active
ConcludableParts(summaryParts, newIndex) ==
    Ascending({k \in DOMAIN summaryParts :
                  k # newIndex /\ summaryParts[k] = "can-conclude"})

\* value.type === 'response.reasoning_summary_part.added'
TransformReasoningSummaryPartAdded(chunk) ==
    /\ Accepts(chunk)
    /\ IsType(chunk, "response.reasoning_summary_part.added")
    /\ LET itemId == chunk.value.item_id
           index  == chunk.value.summary_index
       IN  IF index > 0 /\ MapHas(activeReasoning, itemId)
           THEN LET part  == activeReasoning[itemId]
                    ks    == ConcludableParts(part.summaryParts, index)
                    parts == [k \in (DOMAIN part.summaryParts) \cup {index} |->
                                IF k = index THEN "active"
                                ELSE IF part.summaryParts[k] = "can-conclude"
                                THEN "concluded"
                                ELSE part.summaryParts[k]]
                    ends  == [n \in 1..Len(ks) |->
                                [type |-> "reasoning-end",
                                 id |-> PartId(itemId, ks[n]),
                                 providerMetadata |-> [itemId |-> itemId]]]
                IN  /\ activeReasoning' =
                          MapSet(activeReasoning, itemId,
                                 [part EXCEPT !.summaryParts = parts])
                    /\ Deliver(chunk,
                          ends \o
                          <<[type |-> "reasoning-start",
                             id |-> PartId(itemId, index),
                             providerMetadata |->
                                [itemId |-> itemId,
                                 reasoningEncryptedContent |->
                                    part.encryptedContent]]>>)
           ELSE /\ activeReasoning' = activeReasoning
                /\ Deliver(chunk, <<>>)
    /\ UNCHANGED <<streamParseState, finishReason, usage, responseId,
                   ongoingToolCalls, itemTypes, hasFunctionCall, serviceTier>>

\* value.type === 'response.reasoning_summary_text.delta'
TransformReasoningSummaryTextDelta(chunk) ==
    /\ Accepts(chunk)
    /\ IsType(chunk, "response.reasoning_summary_text.delta")
    /\ Deliver(chunk,
          <<[type |-> "reasoning-delta",
             id |-> PartId(chunk.value.item_id, chunk.value.summary_index),
             delta |-> chunk.value.delta,
             providerMetadata |-> [itemId |-> chunk.value.item_id]]>>)
    /\ UNCHANGED <<streamParseState, finishReason, usage, responseId,
                   ongoingToolCalls, itemTypes, hasFunctionCall,
                   activeReasoning, serviceTier>>

\* value.type === 'response.reasoning_summary_part.done'
TransformReasoningSummaryPartDone(chunk) ==
    /\ Accepts(chunk)
    /\ IsType(chunk, "response.reasoning_summary_part.done")
    /\ LET itemId == chunk.value.item_id
           index  == chunk.value.summary_index
           mark(status) ==
               MapSet(activeReasoning, itemId,
                      [activeReasoning[itemId] EXCEPT
                         !.summaryParts = MapSet(@, index, status)])
       IN  IF ~MapHas(activeReasoning, itemId)
           THEN /\ activeReasoning' = activeReasoning
                /\ Deliver(chunk, <<>>)
           ELSE IF callOptions.store
           THEN /\ activeReasoning' = mark("concluded")
                /\ Deliver(chunk,
                      <<[type |-> "reasoning-end", id |-> PartId(itemId, index),
                         providerMetadata |-> [itemId |-> itemId]]>>)
           ELSE /\ activeReasoning' = mark("can-conclude")
                /\ Deliver(chunk, <<>>)
    /\ UNCHANGED <<streamParseState, finishReason, usage, responseId,
                   ongoingToolCalls, itemTypes, hasFunctionCall, serviceTier>>

\* a derivation that never looks at the response status
FinishedReasonIgnoringStatus(status, hasCall) ==
    [unified |-> mapNordlysFinishReason(None, hasCall), raw |-> None]

\* the finish reason a response.completed event with this status sets
FinishedReason(status, hasCall) ==
    LET raw == IF status = "incomplete" THEN Some("max_output_tokens") ELSE None
    IN  [unified |-> mapNordlysFinishReason(raw, hasCall), raw |-> raw]

\* isResponseFinishedChunk(value)
TransformResponseFinished(chunk) ==
    /\ Accepts(chunk)
    /\ IsType(chunk, "response.completed")
    /\ LET response == chunk.value.response
       IN  /\ finishReason' = FinishedReason(response.status, hasFunctionCall)
           /\ usage' = IF response.usage # None THEN response.usage ELSE usage
           /\ serviceTier' = IF response.service_tier # None
                             THEN response.service_tier
                             ELSE serviceTier
    /\ Deliver(chunk, <<>>)
    /\ UNCHANGED <<streamParseState, responseId, ongoingToolCalls, itemTypes,
                   hasFunctionCall, activeReasoning>>

\* the events the content_part.added branch enqueues, given the helper's result
ContentPartAddedEvents(result) ==
    (IF result.shouldEmitTextDelta /\ result.textDelta # <<>> /\ result.itemId # ""
     THEN <<[type |-> "text-delta", id |-> result.itemId,
             delta |-> result.textDelta]>>
     ELSE <<>>) \o
    (IF /\ result.shouldEmitReasoningDelta
        /\ result.reasoningDelta # <<>>
        /\ result.reasoningItemId # ""
     THEN <<[type |-> "reasoning-delta", id |-> result.reasoningItemId,
             delta |-> result.reasoningDelta]>>
     ELSE <<>>)

\* value.type === 'response.content_part.added'
TransformContentPartAdded(chunk) ==
    /\ Accepts(chunk)
    /\ IsType(chunk, "response.content_part.added")
    /\ LET r == handleContentPartAdded(chunk.value, streamParseState)
       IN  /\ streamParseState' = r.state
           /\ Deliver(chunk, ContentPartAddedEvents(r))
    /\ UNCHANGED <<finishReason, usage, responseId, ongoingToolCalls, itemTypes,
                   hasFunctionCall, activeReasoning, serviceTier>>

\* a content_part.done branch that still ends an open text item itself
ContentPartDoneEndingText(result) ==
    IF result.state.activeTextItems # {}
    THEN LET i == CHOOSE j \in result.state.activeTextItems : TRUE
         IN  <<[type |-> "text-end", id |-> i,
                providerMetadata |-> [itemId |-> i]]>>
    ELSE <<>>

\* the events the content_part.done branch enqueues
ContentPartDoneEvents(result) == <<>>

\* value.type === 'response.content_part.done'
TransformContentPartDone(chunk) ==
    /\ Accepts(chunk)
    /\ IsType(chunk, "response.content_part.done")
    /\ LET r == handleContentPartDone(chunk.value, streamParseState)
       IN  /\ streamParseState' =
                 IF r.shouldEmitReasoningEnd /\ r.reasoningItemId # ""
                 THEN [r.state EXCEPT
                         !.activeReasoningItems = @ \ {r.reasoningItemId}]
                 ELSE r.state
           /\ Deliver(chunk, ContentPartDoneEvents(r))
    /\ UNCHANGED <<finishReason, usage, responseId, ongoingToolCalls, itemTypes,
                   hasFunctionCall, activeReasoning, serviceTier>>

\* isErrorChunk(value)
TransformErrorChunk(chunk) ==
    /\ Accepts(chunk)
    /\ IsType(chunk, "response.error")
    /\ finishReason' = [unified |-> "error", raw |-> None]
    /\ Deliver(chunk, <<[type |-> "error", error |-> chunk.value.error.message]>>)
    /\ UNCHANGED <<streamParseState, usage, responseId, ongoingToolCalls,
                   itemTypes, hasFunctionCall, activeReasoning, serviceTier>>

\* the event types with a branch of their own in transform
HandledTypes ==
    {"response.output_item.added", "response.output_item.done",
     "response.function_call_arguments.delta", "response.created",
     "response.output_text.delta", "response.output_text.done",
     "response.reasoning_text.delta", "response.reasoning_summary_part.added",
     "response.reasoning_summary_text.delta",
     "response.reasoning_summary_text.done",
     "response.reasoning_summary_part.done", "response.completed",
     "response.content_part.added", "response.content_part.done",
     "response.function_call_arguments.done", "response.error"}

\* response.output_text.done and response.reasoning_summary_text.done have an
\* empty branch; an event type with no branch falls through the chain
TransformIgnored(chunk) ==
    /\ Accepts(chunk)
    /\ chunk.success
    /\ \/ chunk.value.type \in {"response.output_text.done",
                                "response.reasoning_summary_text.done"}
       \/ chunk.value.type \notin HandledTypes
    /\ Deliver(chunk, <<>>)
    /\ UNCHANGED <<streamParseState, finishReason, usage, responseId,
                   ongoingToolCalls, itemTypes, hasFunctionCall,
                   activeReasoning, serviceTier>>

(***************************************************************************)
(* flush(controller): runs once, when the event source has closed.         *)
(***************************************************************************)
\* the elements of a finite set in some order
RECURSIVE InSomeOrder(_)
InSomeOrder(S) ==
    IF S = {} THEN <<>>
    ELSE LET x == CHOOSE y \in S : TRUE
         IN  <<x>> \o InSomeOrder(S \ {x})

\* flush that closes the text items still open only after the finish event
FlushEventsEndsAfterFinish ==
    <<[type |-> "finish",
       finishReason |-> finishReason,
       usage |-> convertNordlysResponsesUsage(usage),
       providerMetadata |-> [responseId |-> responseId,
                             serviceTier |-> serviceTier]]>> \o
    LET open == InSomeOrder(streamParseState.activeTextItems)
    IN  [n \in 1..Len(open) |-> [type |-> "text-end", id |-> open[n]]]

\* flush that reports stop when no branch has set a finish reason
FlushEventsDefaultingToStop ==
    <<[type |-> "finish",
       finishReason |-> IF finishReason.unified = "other"
                        THEN [unified |-> "stop", raw |-> None]
                        ELSE finishReason,
       usage |-> convertNordlysResponsesUsage(usage),
       providerMetadata |-> [responseId |-> responseId,
                             serviceTier |-> serviceTier]]>>

\* flush that reports tool-calls when a function call was registered
FlushEventsToolCallsWhenRegistered ==
    <<[type |-> "finish",
       finishReason |-> IF ongoingToolCalls # EmptyMap
                        THEN [unified |-> "tool-calls", raw |-> None]
                        ELSE finishReason,
       usage |-> convertNordlysResponsesUsage(usage),
       providerMetadata |-> [responseId |-> responseId,
                             serviceTier |-> serviceTier]]>>

FlushEvents ==
    <<[type |-> "finish",
       finishReason |-> finishReason,
       usage |-> convertNordlysResponsesUsage(usage),
       providerMetadata |-> [responseId |-> responseId,
                             serviceTier |-> serviceTier]]>>

Flush ==
    /\ ~closed
    /\ ~cancelled
    /\ Scheduled([op |-> "flush"])
    /\ closed' = TRUE
    /\ out' = out \o FlushEvents
    /\ lag' = Recorded([op |-> "flush"])
    /\ UNCHANGED <<streamParseState, finishReason, usage, responseId,
                   ongoingToolCalls, itemTypes, hasFunctionCall,
                   activeReasoning, serviceTier, callOptions, wire, alphabet,
                   cancelled, cur, ctx, input, output>>

\* The consumer cancels the readable side.  The transformer has the start,
\* transform and flush callbacks only: the stream runs none of them for a
\* cancellation, the writable side is errored and no later chunk is
\* transformed.
Cancel ==
    /\ ~closed
    /\ ~cancelled
    /\ cancelled' = TRUE
    /\ UNCHANGED <<streamParseState, finishReason, usage, responseId,
                   ongoingToolCalls, itemTypes, hasFunctionCall,
                   activeReasoning, serviceTier, callOptions, out, wire,
                   closed, alphabet, cur, ctx, lag, input, output>>

\* the callbacks of the transformer, as the stream invokes them
Callbacks ==
    \/ \E chunk \in alphabet : TransformFailedChunk(chunk)
    \/ \E chunk \in alphabet : TransformOutputItemAdded(chunk)
    \/ \E chunk \in alphabet : TransformOutputItemDone(chunk)
    \/ \E chunk \in alphabet : TransformFunctionCallArgumentsDelta(chunk)
    \/ \E chunk \in alphabet : TransformResponseCreated(chunk)
    \/ \E chunk \in alphabet : TransformTextDelta(chunk)
    \/ \E chunk \in alphabet : TransformReasoningTextDelta(chunk)
    \/ \E chunk \in alphabet : TransformReasoningSummaryPartAdded(chunk)
    \/ \E chunk \in alphabet : TransformReasoningSummaryTextDelta(chunk)
    \/ \E chunk \in alphabet : TransformReasoningSummaryPartDone(chunk)
    \/ \E chunk \in alphabet : TransformResponseFinished(chunk)
    \/ \E chunk \in alphabet : TransformContentPartAdded(chunk)
    \/ \E chunk \in alphabet : TransformContentPartDone(chunk)
    \/ \E chunk \in alphabet : TransformFunctionCallArgumentsDone(chunk)
    \/ \E chunk \in alphabet : TransformErrorChunk(chunk)
    \/ \E chunk \in alphabet : TransformIgnored(chunk)
    \/ Flush

Next ==
    \/ Callbacks
    \/ Cancel

Spec == Init /\ [][Next]_vars

(***************************************************************************)
(* Two concurrent doStream calls over the same backend events, with the    *)
(* same item identifiers on both streams.                                  *)
(***************************************************************************)
PairAlphabet ==
    {FailedChunk, ErrorEvent, Created, InProgress,
     Completed("completed", Some(Usage(5, 2, None, None)), Some("default")),
     ItemAdded(MessageItem("a")), ItemDone("a", "message"), TextDelta("a", X),
     ContentPartAdded("a", Part("output_text", X)),
     ContentPartDone("a", Part("output_text", Y)),
     ReasoningTextDelta("a", X),
     SummaryPartAdded("a", 0), SummaryTextDelta("a", 0, X),
     SummaryPartDone("a", 0),
     ArgsDelta("a", <<"{">>), ArgsDone("a")}

\* the closure a doStream call starts with
FreshClosure ==
    [streamParseState |-> createStreamState,
     finishReason |-> [unified |-> "other", raw |-> None],
     usage |-> None, responseId |-> None,
     ongoingToolCalls |-> EmptyMap, itemTypes |-> EmptyMap,
     hasFunctionCall |-> FALSE, activeReasoning |-> EmptyMap,
     serviceTier |-> None,
     callOptions |-> [providerStore |-> None, store |-> resolveStore(None),
                      includeRawChunks |-> FALSE, warnings |-> <<>>],
     out |-> StartEvents(<<>>), wire |-> <<>>, closed |-> FALSE,
     cancelled |-> FALSE,
     alphabet |-> PairAlphabet]

InitPair ==
    /\ cur = "A"
    /\ ctx = [c \in {"A", "B", "soloA", "soloB"} |->
                IF c = "A" THEN <<>> ELSE FreshClosure]
    /\ lag = <<>>
    /\ input = <<>>
    /\ output = <<>>
    /\ streamParseState = FreshClosure.streamParseState
    /\ finishReason = FreshClosure.finishReason
    /\ usage = FreshClosure.usage
    /\ responseId = FreshClosure.responseId
    /\ ongoingToolCalls = FreshClosure.ongoingToolCalls
    /\ itemTypes = FreshClosure.itemTypes
    /\ hasFunctionCall = FreshClosure.hasFunctionCall
    /\ activeReasoning = FreshClosure.activeReasoning
    /\ serviceTier = FreshClosure.serviceTier
    /\ callOptions = FreshClosure.callOptions
    /\ out = FreshClosure.out
    /\ wire = FreshClosure.wire
    /\ closed = FreshClosure.closed
    /\ cancelled = FreshClosure.cancelled
    /\ alphabet = FreshClosure.alphabet

\* a switch between the calls that leaves the finish reason where it is, as
\* if the two calls kept it in one place
YieldSharingFinishReason ==
    /\ cur \in Calls
    /\ lag = <<>>
    /\ ctx' = [ctx EXCEPT ![cur] = Closure, ![OtherCall(cur)] = <<>>]
    /\ cur' = OtherCall(cur)
    /\ streamParseState' = ctx[OtherCall(cur)].streamParseState
    /\ finishReason' = finishReason
    /\ usage' = ctx[OtherCall(cur)].usage
    /\ responseId' = ctx[OtherCall(cur)].responseId
    /\ ongoingToolCalls' = ctx[OtherCall(cur)].ongoingToolCalls
    /\ itemTypes' = ctx[OtherCall(cur)].itemTypes
    /\ hasFunctionCall' = ctx[OtherCall(cur)].hasFunctionCall
    /\ activeReasoning' = ctx[OtherCall(cur)].activeReasoning
    /\ serviceTier' = ctx[OtherCall(cur)].serviceTier
    /\ callOptions' = ctx[OtherCall(cur)].callOptions
    /\ out' = ctx[OtherCall(cur)].out
    /\ wire' = ctx[OtherCall(cur)].wire
    /\ closed' = ctx[OtherCall(cur)].closed
    /\ cancelled' = ctx[OtherCall(cur)].cancelled
    /\ alphabet' = ctx[OtherCall(cur)].alphabet
    /\ UNCHANGED <<lag, input, output>>

\* the event loop turns from one call's stream to the other's
Yield ==
    /\ cur \in Calls
    /\ lag = <<>>
    /\ Enter(OtherCall(cur))
    /\ UNCHANGED lag

\* the solo run of the current call takes over to repeat the call's step
SoloEnter ==
    /\ cur \in Calls
    /\ lag # <<>>
    /\ Enter(SoloOf(cur))
    /\ UNCHANGED lag

\* the solo run has repeated the step and the call goes on
SoloLeave ==
    /\ cur \notin Calls
    /\ lag = <<>>
    /\ Enter(CallOf(cur))
    /\ UNCHANGED lag

NextPair ==
    \/ Callbacks
    \/ Yield
    \/ SoloEnter
    \/ SoloLeave

SpecPair == InitPair /\ [][NextPair]_vars

(***************************************************************************)
(* Vocabulary of the properties.                                           *)
(***************************************************************************)
StartTypes == {"text-start", "reasoning-start", "tool-input-start"}
DeltaTypes == {"text-delta", "reasoning-delta", "tool-input-delta"}
EndTypes   == {"text-end", "reasoning-end", "tool-input-end"}

\* the start / end event type of the kind a lifecycle event type belongs to
StartOf(t) ==
    IF t \in {"text-start", "text-delta", "text-end"} THEN "text-start"
    ELSE IF t \in {"reasoning-start", "reasoning-delta", "reasoning-end"}
    THEN "reasoning-start"
    ELSE "tool-input-start"

EndOf(t) ==
    IF t \in {"text-start", "text-delta", "text-end"} THEN "text-end"
    ELSE IF t \in {"reasoning-start", "reasoning-delta", "reasoning-end"}
    THEN "reasoning-end"
    ELSE "tool-input-end"

\* positions of the events of type t carrying identifier i
Positions(t, i) == {n \in 1..Len(out) : out[n].type = t /\ out[n].id = i}

\* the lifecycle events the step from this state to the next enqueues
Enqueued == SubSeq(out', Len(out) + 1, Len(out'))

\* the step consumes a chunk of wire type t addressing item i
Consumes(t, i) ==
    /\ Len(wire') = Len(wire) + 1
    /\ LET chunk == wire'[Len(wire')]
       IN  /\ IsType(chunk, t)
           /\ chunk.value.item_id = i

\* call i has been started and not ended
ToolCallOpen(i) ==
    \E m \in Positions("tool-input-start", i) :
        \A n \in Positions("tool-input-end", i) : n < m

\* the argument string accumulated for call i over the chunks w: the initial
\* arguments of its item-added event followed by its argument deltas
RECURSIVE ArgumentsOf(_, _)
ArgumentsOf(w, i) ==
    IF w = <<>> THEN <<>>
    ELSE LET chunk == w[Len(w)]
             rest  == ArgumentsOf(SubSeq(w, 1, Len(w) - 1), i)
         IN  IF /\ IsType(chunk, "response.output_item.added")
                /\ chunk.value.item.type = "function_call"
                /\ chunk.value.item.id = i
             THEN chunk.value.item.arguments
             ELSE IF /\ IsType(chunk, "response.function_call_arguments.delta")
                     /\ chunk.value.item_id = i
             THEN rest \o chunk.value.delta
             ELSE rest

\* the deltas, in emission order, of the events of type t carrying identifier i
RECURSIVE DeltasOf(_, _, _)
DeltasOf(evs, t, i) ==
    IF evs = <<>> THEN <<>>
    ELSE IF Head(evs).type = t /\ Head(evs).id = i
    THEN Head(evs).delta \o DeltasOf(Tail(evs), t, i)
    ELSE DeltasOf(Tail(evs), t, i)

FinishPositions == {n \in 1..Len(out) : out[n].type = "finish"}

(***************************************************************************)
(* C1 (P1, start-before-delta): every identifier on an emitted delta or    *)
(* end event has a start event of the same kind with the same identifier   *)
(* strictly earlier in the output.                                         *)
(***************************************************************************)
C1_StartBeforeDeltaAndEnd ==
    \A n \in 1..Len(out) :
        out[n].type \in DeltaTypes \cup EndTypes =>
            \E m \in 1..(n - 1) :
                /\ out[m].type = StartOf(out[n].type)
                /\ out[m].id = out[n].id

(***************************************************************************)
(* C2 (P2): no identifier receives two start events of the same kind       *)
(* without an end event of that kind for it in between.                    *)
(***************************************************************************)
C2_NoSecondStartWhileOpen ==
    \A m, n \in 1..Len(out) :
        (/\ m < n
         /\ out[m].type \in StartTypes
         /\ out[n].type = out[m].type
         /\ out[n].id = out[m].id)
        => \E k \in (m + 1)..(n - 1) :
              /\ out[k].type = EndOf(out[m].type)
              /\ out[k].id = out[m].id

(***************************************************************************)
(* C3 (P4): a step emits tool-call for a call only if the argument string  *)
(* accumulated for that call parses as JSON, and a step in which an        *)
(* argument delta leaves the accumulated arguments of an open call         *)
(* parseable emits its tool-call.                                          *)
(***************************************************************************)
C3_ToolCallIffArgumentsParse ==
    [][\A i \in Ids :
        LET called == \E n \in 1..Len(Enqueued) :
                          /\ Enqueued[n].type = "tool-call"
                          /\ Enqueued[n].toolCallId \in {i, "call-" \o i}
            parses == JsonParses(ArgumentsOf(wire', i))
        IN  /\ called => parses
            /\ (/\ Consumes("response.function_call_arguments.delta", i)
                /\ ToolCallOpen(i)
                /\ parses) => called]_vars

(***************************************************************************)
(* C4: the completion transition of a call fires at most once: after a     *)
(* tool-input-start, at most one tool-input-end and at most one tool-call  *)
(* follow for that call before it is started again.                        *)
(***************************************************************************)
C4_CompletionFiresOnce ==
    \A i \in Ids :
        \A s \in Positions("tool-input-start", i) :
            LET later == {k \in Positions("tool-input-start", i) : k > s}
                span  == {n \in (s + 1)..Len(out) : \A k \in later : n < k}
                ends  == {n \in span : out[n].type = "tool-input-end"
                                        /\ out[n].id = i}
                calls == {n \in span : out[n].type = "tool-call"
                                        /\ out[n].toolCallId \in {i, "call-" \o i}}
            IN  Cardinality(ends) <= 1 /\ Cardinality(calls) <= 1

(***************************************************************************)
(* C5 (P5): after flush the three active sets are empty, and every start   *)
(* event is followed by an end event of its kind for its identifier, which *)
(* precedes the finish event.                                              *)
(***************************************************************************)
C5_FlushClosesEverything ==
    closed =>
        /\ streamParseState.activeTextItems = {}
        /\ streamParseState.activeReasoningItems = {}
        /\ streamParseState.activeToolCalls = {}
        /\ \A m \in 1..Len(out) :
              out[m].type \in StartTypes =>
                  \E n \in (m + 1)..Len(out) :
                      /\ out[n].type = EndOf(out[m].type)
                      /\ out[n].id = out[m].id
                      /\ \A f \in FinishPositions : n < f

TextPartTypes == {"output_text", "refusal"}

\* an item-added (message) or content-part-added (text) event for i
TextOpeners(i) ==
    {n \in 1..Len(wire) :
        \/ /\ IsType(wire[n], "response.output_item.added")
           /\ wire[n].value.item.type = "message"
           /\ wire[n].value.item.id = i
        \/ /\ IsType(wire[n], "response.content_part.added")
           /\ wire[n].value.part.type \in TextPartTypes
           /\ wire[n].value.item_id = i}

TextClosers(i) ==
    {n \in 1..Len(wire) :
        /\ IsType(wire[n], "response.output_item.done")
        /\ wire[n].value.item.id = i}

TextDeltas(i) ==
    {n \in 1..Len(wire) :
        /\ IsType(wire[n], "response.output_text.delta")
        /\ wire[n].value.item_id = i}

\* content-part-done events for i that carry text
TextPartsDoneWithText(i) ==
    {n \in 1..Len(wire) :
        /\ IsType(wire[n], "response.content_part.done")
        /\ wire[n].value.part.type \in TextPartTypes
        /\ wire[n].value.item_id = i
        /\ wire[n].value.part.txt # <<>>}

ReasoningOpeners(i) ==
    {n \in 1..Len(wire) :
        \/ /\ IsType(wire[n], "response.output_item.added")
           /\ wire[n].value.item.type = "reasoning"
           /\ wire[n].value.item.id = i
        \/ /\ IsType(wire[n], "response.content_part.added")
           /\ wire[n].value.part.type = "reasoning_text"
           /\ wire[n].value.item_id = i}

ReasoningClosers(i) ==
    {n \in 1..Len(wire) :
        /\ IsType(wire[n], "response.content_part.done")
        /\ wire[n].value.part.type = "reasoning_text"
        /\ wire[n].value.item_id = i}

ReasoningDeltas(i) ==
    {n \in 1..Len(wire) :
        /\ IsType(wire[n], "response.reasoning_text.delta")
        /\ wire[n].value.item_id = i}

ReasoningPartsDoneWithText(i) ==
    {n \in ReasoningClosers(i) : wire[n].value.part.txt # <<>>}

\* the item is opened before its first delta and never opened again after it
\* was closed, and no content-part-done event carries text for it
Orderly(openers, closers, deltas, silent) ==
    /\ silent = {}
    /\ \A d \in deltas : \E o \in openers : o < d
    /\ \A o \in openers : \A c \in closers : o < c

Lifecycle(evs) == SelectSeq(evs, LAMBDA e : e.type # "raw")

(***************************************************************************)
(* C8: a text-delta (reasoning-delta) wire event for an identifier with no *)
(* open item makes the step emit a synthesized text-start                  *)
(* (reasoning-start) for that identifier immediately followed by the       *)
(* delta event.                                                            *)
(***************************************************************************)
C8_UnopenedDeltaSynthesizesStart ==
    [][\A i \in Ids :
        /\ (/\ Consumes("response.output_text.delta", i)
            /\ i \notin streamParseState.activeTextItems)
           => LET evs == Lifecycle(Enqueued)
              IN  /\ Len(evs) = 2
                  /\ evs[1].type = "text-start" /\ evs[1].id = i
                  /\ evs[2].type = "text-delta" /\ evs[2].id = i
        /\ (/\ Consumes("response.reasoning_text.delta", i)
            /\ i \notin streamParseState.activeReasoningItems)
           => LET evs == Lifecycle(Enqueued)
              IN  /\ Len(evs) = 2
                  /\ evs[1].type = "reasoning-start" /\ evs[1].id = i
                  /\ evs[2].type = "reasoning-delta" /\ evs[2].id = i]_vars

(***************************************************************************)
(* C9: when an argument delta makes the accumulated arguments of an open   *)
(* call parse as JSON, the step emits exactly tool-input-delta,            *)
(* tool-input-end and tool-call for that call, the tool-call carrying the  *)
(* tool name and the full accumulated argument string.                     *)
(***************************************************************************)
C9_CompletionFollowsDeltaAtOnce ==
    [][\A i \in Ids :
        (/\ Consumes("response.function_call_arguments.delta", i)
         /\ ToolCallOpen(i)
         /\ ~JsonParses(ArgumentsOf(wire, i))
         /\ JsonParses(ArgumentsOf(wire', i)))
        => LET evs == Lifecycle(Enqueued)
           IN  /\ Len(evs) = 3
               /\ evs[1].type = "tool-input-delta" /\ evs[1].id = i
               /\ evs[2].type = "tool-input-end" /\ evs[2].id = i
               /\ evs[3].type = "tool-call"
               /\ evs[3].toolName = "tool"
               /\ evs[3].input = ArgumentsOf(wire', i)]_vars

\* the chunks consumed so far include a response.error event
ErrorProcessed == \E n \in 1..Len(wire) : IsType(wire[n], "response.error")

(***************************************************************************)
(* C10: once a stream-error wire event has been processed, the finish      *)
(* event of the stream carries finish reason error, whatever wire events   *)
(* arrived after it.                                                       *)
(***************************************************************************)
C10_ErrorForcesFinishReason ==
    (closed /\ ErrorProcessed) =>
        \A n \in FinishPositions : out[n].finishReason.unified = "error"

\* the step consumes a chunk of wire type t
ConsumesType(t) ==
    /\ Len(wire') = Len(wire) + 1
    /\ IsType(wire'[Len(wire')], t)

(***************************************************************************)
(* C11: a stream-error wire event makes its step emit exactly one error    *)
(* lifecycle event, and once one has been processed no step emits a        *)
(* lifecycle event other than finish or changes the session state.         *)
(***************************************************************************)
C11_ErrorShortCircuits ==
    [][/\ ConsumesType("response.error")
          => LET evs == Lifecycle(Enqueued)
             IN  Len(evs) = 1 /\ evs[1].type = "error"
       /\ ErrorProcessed
          => /\ \A n \in 1..Len(Enqueued) :
                   Enqueued[n].type \in {"raw", "finish"}
             /\ UNCHANGED <<streamParseState, finishReason, usage, responseId,
                            ongoingToolCalls, itemTypes, hasFunctionCall,
                            activeReasoning, serviceTier>>]_vars

\* the step consumes a chunk that failed parsing
ConsumesFailedChunk ==
    /\ Len(wire') = Len(wire) + 1
    /\ ~wire'[Len(wire')].success

(***************************************************************************)
(* C12: a chunk that failed parsing makes its step emit exactly one error  *)
(* lifecycle event after the events already emitted, which stay as they    *)
(* are; the step leaves the stream open and changes nothing a later        *)
(* transform call reads (stream state, item registries, tool-call flag,    *)
(* usage, metadata), so later valid events are handled as they would have  *)
(* been without it.                                                        *)
(***************************************************************************)
C12_FailedChunkIsContained ==
    [][ConsumesFailedChunk
       => /\ LET evs == Lifecycle(Enqueued)
             IN  Len(evs) = 1 /\ evs[1].type = "error"
          /\ SubSeq(out', 1, Len(out)) = out
          /\ ~closed'
          /\ UNCHANGED <<streamParseState, activeReasoning, itemTypes,
                         ongoingToolCalls, hasFunctionCall, usage, responseId,
                         serviceTier, callOptions>>]_vars

\* a text delta handled after a failed chunk that followed an opened message
C12_Witness ==
    /\ \E n \in 2..(Len(wire) - 1) :
          /\ ~wire[n].success
          /\ IsType(wire[n - 1], "response.output_item.added")
          /\ IsType(wire[n + 1], "response.output_text.delta")
    /\ \E m \in 1..Len(out) :
          /\ out[m].type = "error"
          /\ \E k \in 1..(m - 1) : out[k].type = "text-start"
          /\ \E k \in (m + 1)..Len(out) : out[k].type = "text-delta"
    /\ "a" \in streamParseState.activeTextItems

\* wire positions of the chunks that failed parsing, of the response.error
\* events and of the response.completed events
FailedPositions == {n \in 1..Len(wire) : ~wire[n].success}

ErrorPositions == {n \in 1..Len(wire) : IsType(wire[n], "response.error")}

CompletedPositions ==
    {n \in 1..Len(wire) : IsType(wire[n], "response.completed")}

\* the largest element of a non-empty set of positions
Last(S) == CHOOSE n \in S : \A m \in S : m <= n

\* the finish reason the finish event carries
ReportedFinishReason == out[Len(out)].finishReason

\* the finish reason derived from the response.completed event at position n
DerivedFrom(n) == FinishedReason(wire[n].value.response.status, hasFunctionCall)

(***************************************************************************)
(* C13 as stated: after the last chunk that failed parsing the finish      *)
(* event carries finish reason error, unless a response.completed event    *)
(* arrives later, in which case it carries the reason derived from the     *)
(* last such event.                                                        *)
(***************************************************************************)
C13_FailedChunkSetsErrorUnlessCompleted ==
    (closed /\ FailedPositions # {}) =>
        LET later == {c \in CompletedPositions : c > Last(FailedPositions)}
        IN  IF later = {}
            THEN ReportedFinishReason.unified = "error"
            ELSE ReportedFinishReason = DerivedFrom(Last(later))

(***************************************************************************)
(* C13 amended: when a chunk failed parsing, the finish event carries      *)
(* finish reason error unless a response.completed event arrives after the *)
(* last failed chunk and after the last response.error event, in which     *)
(* case it carries the reason derived from the last response.completed     *)
(* event.                                                                  *)
(***************************************************************************)
C13_LastOfFailedErrorCompletedDecides ==
    (closed /\ FailedPositions # {}) =>
        LET errors == FailedPositions \cup ErrorPositions
            later  == {c \in CompletedPositions : c > Last(errors)}
        IN  IF later = {}
            THEN ReportedFinishReason.unified = "error"
            ELSE ReportedFinishReason = DerivedFrom(Last(later))

\* a failed chunk followed by a response.completed event that overrides it
C13_Witness ==
    /\ closed
    /\ FailedPositions # {}
    /\ \E c \in CompletedPositions : c > Last(FailedPositions \cup ErrorPositions)
    /\ ReportedFinishReason.unified = "length"

\* no response.completed event, response.error event or failed chunk was consumed
NoTerminalEventSeen ==
    FailedPositions \cup ErrorPositions \cup CompletedPositions = {}

(***************************************************************************)
(* C14 as stated: if the stream closes without a response.completed event, *)
(* a response.error event or a failed chunk having been seen, the finish   *)
(* event carries finish reason stop.                                       *)
(***************************************************************************)
C14_DefaultFinishReasonStop ==
    (closed /\ NoTerminalEventSeen) => ReportedFinishReason.unified = "stop"

(***************************************************************************)
(* C14 amended: if the stream closes without a response.completed event, a *)
(* response.error event or a failed chunk having been seen, the finish     *)
(* event carries finish reason other, with no raw reason.                  *)
(***************************************************************************)
C14_DefaultFinishReasonOther ==
    (closed /\ NoTerminalEventSeen) =>
        ReportedFinishReason = [unified |-> "other", raw |-> None]

\* a stream that delivered text and closed with no terminal event
C14_Witness ==
    /\ closed
    /\ NoTerminalEventSeen
    /\ Len(wire) >= 2
    /\ \E n \in 1..Len(out) : out[n].type = "text-delta"
    /\ out[Len(out)].type = "finish"

(***************************************************************************)
(* C15: if the stream closes while a tool call is open whose accumulated   *)
(* arguments do not parse as JSON, and no branch ever set a finish reason, *)
(* the finish event carries finish reason other.                           *)
(***************************************************************************)
C15_OpenToolCallFinishesOther ==
    \A i \in Ids :
        (/\ closed
         /\ ToolCallOpen(i)
         /\ ~JsonParses(ArgumentsOf(wire, i))
         /\ NoTerminalEventSeen)
        => ReportedFinishReason.unified = "other"

\* a call that received a partial argument string before the stream closed
C15_Witness ==
    /\ closed
    /\ ToolCallOpen("a")
    /\ ArgumentsOf(wire, "a") = <<"{">>
    /\ NoTerminalEventSeen
    /\ \E n \in 1..Len(out) : out[n].type = "tool-input-delta"

\* a tool-call lifecycle event has been emitted on this stream
ToolCallEmitted == \E n \in 1..Len(out) : out[n].type = "tool-call"

\* the response statuses of the wire schema
ResponseStatuses ==
    {"completed", "incomplete", "failed", "cancelled", "queued", "in_progress"}

CanConclude(i) ==
    IF MapHas(activeReasoning, i)
    THEN {j \in DOMAIN activeReasoning[i].summaryParts :
             activeReasoning[i].summaryParts[j] = "can-conclude"}
    ELSE {}

\* the summary indices the stream can carry
SummaryIndices == {0, 1}

(***************************************************************************)
(* C17: a reasoning_summary_part.added event with index greater than 0 for *)
(* a registered reasoning item makes its step emit a reasoning-end for     *)
(* every summary part of the item marked can-conclude, mark each of them   *)
(* concluded, and emit the reasoning-start of the new part after them.     *)
(***************************************************************************)
C17_ConcludeBeforeNextPartStarts ==
    [][\A i \in Ids : \A k \in SummaryIndices :
        (/\ Consumes("response.reasoning_summary_part.added", i)
         /\ wire'[Len(wire')].value.summary_index = k
         /\ k > 0
         /\ MapHas(activeReasoning, i))
        => LET evs == Lifecycle(Enqueued)
           IN  /\ Len(evs) = Cardinality(CanConclude(i)) + 1
               /\ evs[Len(evs)].type = "reasoning-start"
               /\ evs[Len(evs)].id = PartId(i, k)
               /\ \A j \in CanConclude(i) :
                     /\ \E n \in 1..(Len(evs) - 1) :
                           /\ evs[n].type = "reasoning-end"
                           /\ evs[n].id = PartId(i, j)
                     /\ activeReasoning'[i].summaryParts[j] = "concluded"]_vars

(***************************************************************************)
(* C18: a reasoning_summary_part.done event for a registered reasoning     *)
(* item, when the request enables store or leaves it unset, makes its step *)
(* emit reasoning-end for that part and mark the part concluded; when the  *)
(* request disables store the step emits nothing and marks the part        *)
(* can-conclude.                                                           *)
(***************************************************************************)
C18_PartDoneFollowsStore ==
    [][\A i \in Ids : \A k \in SummaryIndices :
        (/\ Consumes("response.reasoning_summary_part.done", i)
         /\ wire'[Len(wire')].value.summary_index = k
         /\ MapHas(activeReasoning, i))
        => LET evs == Lifecycle(Enqueued)
           IN  IF callOptions.providerStore \in {None, Some(TRUE)}
               THEN /\ Len(evs) = 1
                    /\ evs[1].type = "reasoning-end"
                    /\ evs[1].id = PartId(i, k)
                    /\ activeReasoning'[i].summaryParts[k] = "concluded"
               ELSE /\ evs = <<>>
                    /\ activeReasoning'[i].summaryParts[k] = "can-conclude"]_vars

\* with store unset, a part was concluded before a later item started
C18_Witness ==
    /\ callOptions.providerStore = None
    /\ \E m, n \in 1..Len(out) :
          /\ m < n
          /\ out[m].type = "reasoning-end" /\ out[m].id = "a:0"
          /\ out[n].type = "text-start" /\ out[n].id = "b"
    /\ \E n \in 1..Len(wire) :
          IsType(wire[n], "response.reasoning_summary_part.done")
    /\ MapHas(activeReasoning, "a")
    /\ activeReasoning["a"].summaryParts[0] = "concluded"

\* wire positions of the item-added events announcing message i
MessageAdded(i) ==
    {n \in 1..Len(wire) :
        /\ IsType(wire[n], "response.output_item.added")
        /\ wire[n].value.item.type = "message"
        /\ wire[n].value.item.id = i}

(***************************************************************************)
(* C19: the first item-added event for a message identifier makes its step *)
(* emit text-start for that identifier, also when the message carries no   *)
(* content part.                                                           *)
(***************************************************************************)
C19_FirstMessageAddedEmitsTextStart ==
    [][\A i \in Ids :
        (/\ ConsumesType("response.output_item.added")
         /\ wire'[Len(wire')].value.item.type = "message"
         /\ wire'[Len(wire')].value.item.id = i
         /\ MessageAdded(i) = {})
        => LET evs == Lifecycle(Enqueued)
           IN  /\ Len(evs) = 1
               /\ evs[1].type = "text-start"
               /\ evs[1].id = i]_vars

ReasoningTypes == {"reasoning-start", "reasoning-delta", "reasoning-end"}

\* wire positions, among the chunks w, of the item-added events of reasoning item i
ReasoningAdded(w, i) ==
    {n \in 1..Len(w) :
        /\ IsType(w[n], "response.output_item.added")
        /\ w[n].value.item.type = "reasoning"
        /\ w[n].value.item.id = i}

\* the identifiers the lifecycle events of reasoning item i carry
ReasoningEventIds(i) == {i} \cup {PartId(i, k) : k \in SummaryIndices}

\* the event carries token as its encrypted content
CarriesToken(ev, token) ==
    /\ "providerMetadata" \in DOMAIN ev
    /\ "reasoningEncryptedContent" \in DOMAIN ev.providerMetadata
    /\ ev.providerMetadata.reasoningEncryptedContent = token

(***************************************************************************)
(* C20: every reasoning-start, reasoning-delta and reasoning-end event     *)
(* emitted for a reasoning item that an item-added event announced carries *)
(* the encrypted content of that item-added event (null when absent).      *)
(***************************************************************************)
C20_ReasoningEventsCarryToken ==
    [][\A i \in Ids :
        ReasoningAdded(wire', i) # {} =>
            LET token == wire'[Last(ReasoningAdded(wire', i))]
                             .value.item.encrypted_content
            IN  \A n \in 1..Len(Enqueued) :
                    (/\ Enqueued[n].type \in ReasoningTypes
                     /\ Enqueued[n].id \in ReasoningEventIds(i))
                    => CarriesToken(Enqueued[n], token)]_vars

(***************************************************************************)
(* C21.  stream-start is emitted exactly once per stream, carries the      *)
(* accumulated request-building warnings, and precedes every other         *)
(* lifecycle event: it is the first event of the output, it holds the      *)
(* warnings of the call, and no later event is a stream-start.             *)
(***************************************************************************)
C21_StreamStartOnceFirstWithWarnings ==
    /\ Len(out) >= 1
    /\ out[1] = [type |-> "stream-start", warnings |-> callOptions.warnings]
    /\ \A n \in 2..Len(out) : out[n].type # "stream-start"

\* a finished stream of a call with a warning, with events after the start
C21_Witness ==
    /\ closed
    /\ callOptions.warnings # <<>>
    /\ Len(wire) >= 2
    /\ Len(Lifecycle(out)) >= 3
    /\ out[1].type = "stream-start"
    /\ out[1].warnings = callOptions.warnings

(***************************************************************************)
(* C22.  Two streams started by two concurrent doStream calls own disjoint *)
(* session state: for any interleaving of their wire events, each stream   *)
(* emits exactly the lifecycle sequence it would emit if it ran alone.     *)
(* Whenever the solo runs have caught up, each call has emitted what its   *)
(* solo run has emitted over the same wire events, and holds the same      *)
(* session state.                                                          *)
(***************************************************************************)
InStep == Paired /\ cur \in Calls /\ lag = <<>>

C23_CancelStillFinalizes ==
    [][/\ cancelled' =>
            /\ Cardinality(FinishPositions') = 1
            /\ out'[Len(out')].type = "finish"
            /\ \A n \in 1..Len(out') :
                  out'[n].type \in StartTypes =>
                      \E m \in (n + 1)..Len(out') :
                          /\ out'[m].type = EndOf(out'[n].type)
                          /\ out'[m].id = out'[n].id
       /\ cancelled => wire' = wire
       /\ Len(out') >= Len(out)
       /\ SubSeq(out', 1, Len(out)) = out]_vars

(***************************************************************************)
(* Usage extraction: extractUsageFromCompleted applied to a completed      *)
(* event whose usage is absent or holds any token counts up to MaxTokens,  *)
(* each detail count present or absent.                                    *)
(***************************************************************************)
MaxTokens == 3

TokenCounts == 0..MaxTokens
DetailCounts == {None} \cup {Some(n) : n \in TokenCounts}

Usages ==
    {None} \cup
    {Some(Usage(i, o, c, r)) :
        i \in TokenCounts, o \in TokenCounts,
        c \in DetailCounts, r \in DetailCounts}

\* the stream variables play no part in a function application
StreamIdle ==
    /\ streamParseState = createStreamState
    /\ finishReason = [unified |-> "other", raw |-> None]
    /\ usage = None
    /\ responseId = None
    /\ ongoingToolCalls = EmptyMap
    /\ itemTypes = EmptyMap
    /\ hasFunctionCall = FALSE
    /\ activeReasoning = EmptyMap
    /\ serviceTier = None
    /\ callOptions = <<>>
    /\ out = <<>>
    /\ wire = <<>>
    /\ closed = FALSE
    /\ cancelled = FALSE
    /\ alphabet = {}
    /\ cur = "A"
    /\ ctx = <<>>
    /\ lag = <<>>

StreamVars ==
    <<streamParseState, finishReason, usage, responseId, ongoingToolCalls,
      itemTypes, hasFunctionCall, activeReasoning, serviceTier, callOptions,
      out, wire, closed, cancelled, alphabet, cur, ctx, lag>>

InitUsage ==
    /\ StreamIdle
    /\ \E u \in Usages : input = Completed("completed", u, None).value
    /\ output = None

ExtractUsage ==
    /\ output = None
    /\ output' = Some(extractUsageFromCompleted(input))
    /\ UNCHANGED <<input, StreamVars>>

\* the backend sends the next completed event
NextCompleted ==
    /\ output # None
    /\ \E u \in Usages : input' = Completed("completed", u, None).value
    /\ output' = None
    /\ UNCHANGED StreamVars

NextUsage ==
    \/ ExtractUsage
    \/ NextCompleted

SpecUsage == InitUsage /\ [][NextUsage]_vars

(***************************************************************************)
(* C24.  Usage sub-splits are plain unclamped subtractions: non-cached     *)
(* input equals input total minus cached tokens and text output equals     *)
(* output total minus reasoning tokens whenever the backend supplies the   *)
(* subcategory (so the result is negative when the subcategory exceeds the *)
(* total), a sub-split is absent when its subcategory is absent, and both  *)
(* totals are 0 when the completed event carries no usage.                 *)
(***************************************************************************)
C24_UsageSubSplitsUnclamped ==
    output # None =>
        LET u == input.response.usage
            r == output[1]
        IN  IF u = None
            THEN /\ r.inputTokens.total = 0
                 /\ r.outputTokens.total = 0
                 /\ r.inputTokens.noCache = None
                 /\ r.outputTokens.text = None
            ELSE /\ r.inputTokens.total = u[1].input_tokens
                 /\ r.outputTokens.total = u[1].output_tokens
                 /\ u[1].cached_tokens # None =>
                       r.inputTokens.noCache =
                           Some(u[1].input_tokens - u[1].cached_tokens[1])
                 /\ u[1].cached_tokens = None => r.inputTokens.noCache = None
                 /\ u[1].reasoning_tokens # None =>
                       r.outputTokens.text =
                           Some(u[1].output_tokens - u[1].reasoning_tokens[1])
                 /\ u[1].reasoning_tokens = None => r.outputTokens.text = None

\* more cached tokens than input tokens: the non-cached count is negative,
\* while the text split, with no reasoning count supplied, is absent
C24_Witness ==
    /\ output # None
    /\ input.response.usage # None
    /\ input.response.usage[1].cached_tokens = Some(3)
    /\ input.response.usage[1].input_tokens = 1
    /\ input.response.usage[1].reasoning_tokens = None
    /\ output[1].inputTokens.noCache = Some(-2)
    /\ output[1].outputTokens.text = None

(***************************************************************************)
(* Request building: convertToNordlysResponseInput, getArgs and the head   *)
(* of doGenerate and doStream.  A prompt is a sequence of messages; a      *)
(* conversion either returns or throws, and a thrown error is the record   *)
(* [threw |-> TRUE, error |-> its class, functionality |-> what it names]. *)
(***************************************************************************)
MaxMessages == 3

TextPart(t) == [type |-> "text", text |-> t]
FilePart(mediaType, data) ==
    [type |-> "file", mediaType |-> mediaType, data |-> data]
ToolCallPart(i) ==
    [type |-> "tool-call", toolCallId |-> i, toolName |-> "tool", input |-> "{}"]
ReasoningPart == [type |-> "reasoning", text |-> "r"]
ToolResultPart(i, v) ==
    [type |-> "tool-result", toolCallId |-> i,
     output |-> [type |-> "text", value |-> v]]

\* the content of a system message is a string, held in the field text
SystemMessage(t) == [role |-> "system", text |-> t]
UserMessage(parts) == [role |-> "user", content |-> parts]
AssistantMessage(parts) == [role |-> "assistant", content |-> parts]
ToolMessage(parts) == [role |-> "tool", content |-> parts]

\* the data of a file part: a URL object, a string naming an uploaded file,
\* or the bytes themselves
FileData == {"URL", "file-1", "bytes"}

Messages ==
    {SystemMessage("S1"), SystemMessage("S2"),
     UserMessage(<<TextPart("hi")>>),
     UserMessage(<<TextPart("hi"), FilePart("image/png", "URL")>>),
     UserMessage(<<FilePart("audio/wav", "bytes")>>),
     UserMessage(<<FilePart("audio/mp3", "URL")>>),
     UserMessage(<<FilePart("application/pdf", "URL")>>),
     UserMessage(<<TextPart("hi"), FilePart("application/pdf", "bytes")>>),
     UserMessage(<<FilePart("text/plain", "bytes")>>),
     AssistantMessage(<<TextPart("ok"), ToolCallPart("c1")>>),
     AssistantMessage(<<ReasoningPart>>),
     ToolMessage(<<ToolResultPart("c1", "r")>>),
     ToolMessage(<<ToolResultPart("c1", "")>>)}

RECURSIVE SeqsUpTo(_, _)
SeqsUpTo(S, n) ==
    IF n = 0 THEN {<<>>}
    ELSE LET shorter == SeqsUpTo(S, n - 1)
         IN  shorter \cup {Append(p, m) : p \in shorter, m \in S}

Prompts == SeqsUpTo(Messages, MaxMessages)

Threw(class, what) == [threw |-> TRUE, error |-> class, functionality |-> what]

\* AUDIO_MEDIA_TYPES_SET.has(mediaType)
isAudioMediaType(mediaType) ==
    mediaType \in {"audio/wav", "audio/mp3", "audio/mpeg"}

\* mediaType?.startsWith('image/')
IsImageMediaType(mediaType) ==
    mediaType \in {"image/png", "image/jpeg", "image/*"}

\* convertToolOutput(output) for the text outputs
convertToolOutput(o) == o.value

\* an instructions builder that yields a list whatever the number of messages
buildInstructionsAlwaysList(systemMessages) ==
    IF Len(systemMessages) = 0 THEN None
    ELSE Some([kind  |-> "array",
               items |-> [n \in 1..Len(systemMessages) |->
                            [role |-> "system", content |-> systemMessages[n]]]])

\* buildInstructions(systemMessages): undefined is None
buildInstructions(systemMessages) ==
    IF Len(systemMessages) = 0 THEN None
    ELSE IF Len(systemMessages) = 1
    THEN Some([kind |-> "string", text |-> systemMessages[1]])
    ELSE Some([kind  |-> "array",
               items |-> [n \in 1..Len(systemMessages) |->
                            [role |-> "system", content |-> systemMessages[n]]]])

\* case 'user', the loop over the parts of a content that is not one text:
\* the content parts and the input items pushed so far, or the error thrown
RECURSIVE userParts(_, _, _, _)
userParts(content, k, contentParts, inputItems) ==
    IF k > Len(content)
    THEN [threw |-> FALSE, contentParts |-> contentParts,
          inputItems |-> inputItems]
    ELSE LET part == content[k]
         IN  IF part.type = "text"
             THEN userParts(content, k + 1,
                            Append(contentParts,
                                   [type |-> "input_text", text |-> part.text]),
                            inputItems)
             ELSE IF IsImageMediaType(part.mediaType)
             THEN userParts(content, k + 1,
                            Append(contentParts,
                                   [type |-> "input_image",
                                    source |-> part.data]),
                            inputItems)
             ELSE IF isAudioMediaType(part.mediaType)
             THEN IF part.data = "URL"
                  THEN Threw("UnsupportedFunctionalityError",
                             "audio file parts with URLs")
                  ELSE userParts(content, k + 1, contentParts,
                                 Append(inputItems,
                                        [type |-> "input_audio",
                                         format |-> IF part.mediaType = "audio/wav"
                                                    THEN "wav" ELSE "mp3"]))
             ELSE IF part.mediaType = "application/pdf"
             THEN IF part.data = "URL"
                  THEN Threw("UnsupportedFunctionalityError",
                             "PDF file parts with URLs")
                  ELSE userParts(content, k + 1,
                                 Append(contentParts,
                                        [type |-> "input_file",
                                         filename |-> "document.pdf"]),
                                 inputItems)
             ELSE Threw("UnsupportedFunctionalityError",
                        "file part media type")

\* case 'user'
userMessage(content, acc) ==
    LET r == IF Len(content) = 1 /\ content[1].type = "text"
             THEN [threw |-> FALSE,
                   contentParts |-> <<[type |-> "input_text",
                                       text |-> content[1].text]>>,
                   inputItems |-> acc.inputItems]
             ELSE userParts(content, 1, <<>>, acc.inputItems)
    IN  IF r.threw THEN r
        ELSE [acc EXCEPT !.inputItems =
                 IF Len(r.contentParts) > 0
                 THEN Append(r.inputItems,
                             [role |-> "user", content |-> r.contentParts])
                 ELSE r.inputItems]

\* case 'assistant': tool calls become function_call items, reasoning and
\* file parts a warning, and the joined text a user item with a warning
RECURSIVE assistantParts(_, _, _)
assistantParts(content, k, acc) ==
    IF k > Len(content) THEN acc
    ELSE LET part == content[k]
         IN  IF part.type = "text"
             THEN assistantParts(content, k + 1,
                                 [acc EXCEPT !.text = acc.text \o <<part.text>>])
             ELSE IF part.type = "tool-call"
             THEN assistantParts(content, k + 1,
                     [acc EXCEPT !.inputItems =
                         Append(acc.inputItems,
                                [type |-> "function_call",
                                 call_id |-> part.toolCallId,
                                 name |-> part.toolName])])
             ELSE assistantParts(content, k + 1,
                     [acc EXCEPT !.warnings =
                         Append(acc.warnings, "assistant-part-unsupported")])

assistantMessage(content, acc) ==
    LET r == assistantParts(content, 1,
                            [inputItems |-> acc.inputItems,
                             warnings |-> acc.warnings, text |-> <<>>])
    IN  IF \E n \in 1..Len(r.text) : r.text[n] # ""
        THEN [acc EXCEPT !.warnings = Append(r.warnings, "assistant-as-user"),
                         !.inputItems =
                             Append(r.inputItems,
                                    [role |-> "user",
                                     content |-> <<[type |-> "input_text",
                                                    joined |-> r.text]>>])]
        ELSE [acc EXCEPT !.warnings = r.warnings, !.inputItems = r.inputItems]

\* case 'tool'
RECURSIVE toolMessage(_, _, _)
toolMessage(content, k, acc) ==
    IF k > Len(content) THEN acc
    ELSE LET toolResponse == content[k]
         IN  IF toolResponse.type = "tool-approval-response"
                \/ convertToolOutput(toolResponse.output) = ""
             THEN toolMessage(content, k + 1, acc)
             ELSE toolMessage(content, k + 1,
                     [acc EXCEPT !.inputItems =
                         Append(acc.inputItems,
                                [type |-> "function_call_output",
                                 call_id |-> toolResponse.toolCallId,
                                 output |-> convertToolOutput(
                                               toolResponse.output)])])

\* for (const { role, content } of prompt)
RECURSIVE promptLoop(_, _, _)
promptLoop(prompt, k, acc) ==
    IF k > Len(prompt) THEN acc
    ELSE LET message == prompt[k]
             next == IF message.role = "system"
                     THEN [acc EXCEPT !.systemMessages =
                              Append(acc.systemMessages, message.text)]
                     ELSE IF message.role = "user"
                     THEN userMessage(message.content, acc)
                     ELSE IF message.role = "assistant"
                     THEN assistantMessage(message.content, acc)
                     ELSE toolMessage(message.content, 1, acc)
         IN  IF next.threw THEN next ELSE promptLoop(prompt, k + 1, next)

hasOnlySingleUserText(prompt) ==
    /\ Len(prompt) = 1
    /\ prompt[1].role = "user"
    /\ Len(prompt[1].content) = 1
    /\ prompt[1].content[1].type = "text"

\* a conversion that sends a prompt without input items as an empty list
convertToNordlysResponseInputAllowingEmpty(prompt) ==
    LET r == promptLoop(prompt, 1,
                        [threw |-> FALSE, inputItems |-> <<>>,
                         systemMessages |-> <<>>, warnings |-> <<>>])
    IN  IF r.threw THEN r
        ELSE IF hasOnlySingleUserText(prompt)
        THEN [threw |-> FALSE,
              input |-> [kind |-> "string", text |-> prompt[1].content[1].text],
              instructions |-> None,
              warnings |-> r.warnings]
        ELSE [threw |-> FALSE,
              input |-> [kind |-> "array", items |-> r.inputItems],
              instructions |-> buildInstructions(r.systemMessages),
              warnings |-> r.warnings]

\* convertToNordlysResponseInput({ prompt })
convertToNordlysResponseInput(prompt) ==
    LET r == promptLoop(prompt, 1,
                        [threw |-> FALSE, inputItems |-> <<>>,
                         systemMessages |-> <<>>, warnings |-> <<>>])
    IN  IF r.threw THEN r
        ELSE IF hasOnlySingleUserText(prompt)
        THEN [threw |-> FALSE,
              input |-> [kind |-> "string", text |-> prompt[1].content[1].text],
              instructions |-> None,
              warnings |-> r.warnings]
        ELSE IF Len(r.inputItems) = 0
        THEN Threw("Error", "no valid input items found")
        ELSE [threw |-> FALSE,
              input |-> [kind |-> "array", items |-> r.inputItems],
              instructions |-> buildInstructions(r.systemMessages),
              warnings |-> r.warnings]

\* LanguageModelV3CallOptions: the generation settings of one call
CallSettings ==
    [temperature : {None, Some(1)}, topP : {None, Some(1)},
     maxOutputTokens : {None, Some(10)}, topK : {None, Some(5)}]

\* NordlysChatSettings: the settings given when the model is created
ModelSettings ==
    {[temperature |-> None, topP |-> None, maxOutputTokens |-> None],
     [temperature |-> Some(2), topP |-> None, maxOutputTokens |-> None],
     [temperature |-> Some(2), topP |-> Some(2), maxOutputTokens |-> Some(20)]}

\* prepareTools({ tools, toolChoice }) of a call without tools
toolWarnings == <<>>

\* getArgs(options) of a model created with settings; the settings are read
\* for their provider options only
getArgs(options, settings) ==
    LET conv == convertToNordlysResponseInput(options.prompt)
    IN  IF conv.threw THEN conv
        ELSE [threw    |-> FALSE,
              args     |-> [input             |-> conv.input,
                            model             |-> "m",
                            instructions      |-> conv.instructions,
                            max_output_tokens |-> options.maxOutputTokens,
                            temperature       |-> options.temperature,
                            top_p             |-> options.topP],
              warnings |-> conv.warnings \o toolWarnings,
              store    |-> resolveStore(None)]

\* the prompts under which the settings are varied
SettingsPrompts ==
    {<<UserMessage(<<TextPart("hi")>>)>>,
     <<SystemMessage("S1"), AssistantMessage(<<TextPart("ok"), ToolCallPart("c1")>>)>>,
     <<SystemMessage("S1")>>}

DefaultCallSettings ==
    [temperature |-> None, topP |-> None, maxOutputTokens |-> None,
     topK |-> None]

Call(m, s, p, c) ==
    [method |-> m, settings |-> s,
     options |-> [prompt |-> p, temperature |-> c.temperature,
                  topP |-> c.topP, maxOutputTokens |-> c.maxOutputTokens,
                  topK |-> c.topK]]

\* every prompt under the default settings, and every combination of
\* settings under a few prompts
RequestCalls ==
    {Call(m, [temperature |-> None, topP |-> None, maxOutputTokens |-> None],
          p, DefaultCallSettings) :
        m \in {"doGenerate", "doStream"}, p \in Prompts}
    \cup
    {Call(m, s, p, c) :
        m \in {"doGenerate", "doStream"}, s \in ModelSettings,
        p \in SettingsPrompts, c \in CallSettings}

\* doGenerate(options) or doStream(options) has been called
InitRequest ==
    /\ StreamIdle
    /\ input \in RequestCalls
    /\ output = [phase |-> "called", requests |-> <<>>, built |-> None,
                 error |-> None, delivered |-> None]

\* await this.getArgs(options)
GetArgs ==
    /\ output.phase = "called"
    /\ LET r == getArgs(input.options, input.settings)
       IN  output' = IF r.threw
                     THEN [output EXCEPT !.phase = "threw",
                                         !.error = Some(r)]
                     ELSE [output EXCEPT !.phase = "built",
                                         !.built = Some(r)]
    /\ UNCHANGED <<input, StreamVars>>

\* a call that posts the request whatever getArgs has done
PostJsonToApiUnconditionally ==
    /\ output.phase \in {"built", "threw"}
    /\ output.requests = <<>>
    /\ output' = [output EXCEPT
                     !.requests = <<[url |-> "/responses",
                                     stream |-> input.method = "doStream"]>>]
    /\ UNCHANGED <<input, StreamVars>>

\* await postJsonToApi({ url, headers, body, ... })
PostJsonToApi ==
    /\ output.phase = "built"
    /\ output' = [output EXCEPT
                     !.phase = "sent",
                     !.requests = Append(@, [url |-> "/responses",
                                             body |-> output.built[1].args,
                                             stream |-> input.method = "doStream"])]
    /\ UNCHANGED <<input, StreamVars>>

\* doGenerate returns { content, finishReason, usage, ..., warnings }
DoGenerateReturns ==
    /\ output.phase = "sent"
    /\ input.method = "doGenerate"
    /\ output' = [output EXCEPT
                     !.phase = "returned",
                     !.delivered = Some(output.built[1].warnings)]
    /\ UNCHANGED <<input, StreamVars>>

\* doStream returns the stream, whose start(controller) has run
DoStreamReturns ==
    /\ output.phase = "sent"
    /\ input.method = "doStream"
    /\ output' = [output EXCEPT
                     !.phase = "returned",
                     !.delivered =
                         Some(StartEvents(output.built[1].warnings)[1].warnings)]
    /\ UNCHANGED <<input, StreamVars>>

NextRequest ==
    \/ GetArgs
    \/ PostJsonToApi
    \/ DoGenerateReturns
    \/ DoStreamReturns

SpecRequest == InitRequest /\ [][NextRequest]_vars

(***************************************************************************)
(* C25.  A request-building failure (an unsupported content kind, or a     *)
(* prompt that yields no input item) is raised by doGenerate and doStream  *)
(* before any HTTP request is issued: a call that has thrown has issued no *)
(* request, and a call that has issued a request has built its arguments.  *)
(***************************************************************************)
C25_BuildFailureBeforeAnyRequest ==
    /\ output.phase = "threw" =>
          /\ output.requests = <<>>
          /\ output.error # None
          /\ convertToNordlysResponseInput(input.options.prompt).threw
    /\ output.requests # <<>> =>
          /\ output.built # None
          /\ ~convertToNordlysResponseInput(input.options.prompt).threw

\* doStream called with a system message alone: no input item, the call has
\* thrown and nothing has been posted
C25_Witness ==
    /\ input.method = "doStream"
    /\ input.options.prompt = <<SystemMessage("S1")>>
    /\ output.phase = "threw"
    /\ output.error[1].error = "Error"
    /\ output.requests = <<>>

(***************************************************************************)
(* C26.  Request building fails only when a message contains content the   *)
(* backend cannot represent (an audio or PDF file part given as a remote   *)
(* URL, or a file part of an unsupported media type), and then with an     *)
(* unsupported-content error; no other prompt makes request building fail. *)
(***************************************************************************)
Unrepresentable(part) ==
    /\ part.type = "file"
    /\ \/ /\ part.mediaType \in {"audio/wav", "audio/mp3", "audio/mpeg",
                                 "application/pdf"}
          /\ part.data = "URL"
       \/ part.mediaType \notin {"image/png", "image/jpeg", "image/*",
                                 "audio/wav", "audio/mp3", "audio/mpeg",
                                 "application/pdf"}

HasUnsupportedContent(prompt) ==
    \E k \in 1..Len(prompt) :
        /\ prompt[k].role = "user"
        /\ \E n \in 1..Len(prompt[k].content) :
              Unrepresentable(prompt[k].content[n])

\* the message puts at least one item into the wire input
YieldsInputItem(message) ==
    IF message.role = "system" THEN FALSE
    ELSE \E n \in 1..Len(message.content) :
            LET part == message.content[n]
            IN  IF message.role = "user"
                THEN part.type \in {"text", "file"}
                ELSE IF message.role = "assistant"
                THEN \/ part.type = "tool-call"
                     \/ part.type = "text" /\ part.text # ""
                ELSE part.type = "tool-result" /\ part.output.value # ""

YieldsNoInputItem(prompt) ==
    \A k \in 1..Len(prompt) : ~YieldsInputItem(prompt[k])

SystemTexts(prompt) ==
    LET sys == SelectSeq(prompt, LAMBDA m : m.role = "system")
    IN  [n \in 1..Len(sys) |-> sys[n].text]

C27_SystemMessagesBecomeInstructions ==
    output.built # None =>
        LET args  == output.built[1].args
            texts == SystemTexts(input.options.prompt)
        IN  /\ args.input.kind = "array" =>
                  \A n \in 1..Len(args.input.items) :
                      "role" \in DOMAIN args.input.items[n] =>
                          args.input.items[n].role # "system"
            /\ Len(texts) = 0 => args.instructions = None
            /\ Len(texts) = 1 =>
                  args.instructions = Some([kind |-> "string", text |-> texts[1]])
            /\ Len(texts) > 1 =>
                  /\ args.instructions # None
                  /\ args.instructions[1].kind = "array"
                  /\ [n \in 1..Len(args.instructions[1].items) |->
                         args.instructions[1].items[n].content] = texts
            /\ \A n \in 1..Len(output.requests) :
                  output.requests[n].body.instructions = args.instructions

\* two system messages around a user message: the request posted carries
\* both texts as a list, in prompt order, and one user item as its input
C27_Witness ==
    /\ input.options.prompt =
          <<SystemMessage("S2"), UserMessage(<<TextPart("hi")>>),
            SystemMessage("S1")>>
    /\ output.phase = "sent"
    /\ Len(output.requests) = 1
    /\ output.requests[1].body.instructions[1].kind = "array"
    /\ output.requests[1].body.instructions[1].items[1].content = "S2"
    /\ output.requests[1].body.instructions[1].items[2].content = "S1"
    /\ Len(output.requests[1].body.input.items) = 1

(***************************************************************************)
(* C28.  Generation settings given when the model instance is created      *)
(* (temperature, topP, maxOutputTokens) are sent in the request whenever   *)
(* the call does not set them, and a value set on the call takes           *)
(* precedence over the model-level value.                                  *)
(***************************************************************************)
\* call ?? model
Effective(callValue, modelValue) ==
    IF callValue # None THEN callValue ELSE modelValue

C28_ModelSettingsAreDefaults ==
    \A n \in 1..Len(output.requests) :
        LET body == output.requests[n].body
        IN  /\ body.temperature =
                  Effective(input.options.temperature, input.settings.temperature)
            /\ body.top_p = Effective(input.options.topP, input.settings.topP)
            /\ body.max_output_tokens =
                  Effective(input.options.maxOutputTokens,
                            input.settings.maxOutputTokens)

(***************************************************************************)
(* C29.  An unsupported generation parameter such as top-k never makes     *)
(* request building fail; it yields an advisory warning that is returned   *)
(* to the caller (in stream-start for streaming calls).  A call that sets  *)
(* topK fails only if the same call without topK fails, and once it has    *)
(* returned, the warnings handed to the caller name topK.                  *)
(***************************************************************************)
WithoutTopK(options) == [options EXCEPT !.topK = None]

NamesTopK(warnings) ==
    \E n \in 1..Len(warnings) : warnings[n] = "unsupported: topK"

C29_TopKWarnsAndNeverFails ==
    input.options.topK # None =>
        /\ output.phase = "threw" =>
              getArgs(WithoutTopK(input.options), input.settings).threw
        /\ output.built # None => NamesTopK(output.built[1].warnings)
        /\ output.delivered # None => NamesTopK(output.delivered[1])

(***************************************************************************)
(* C30.  For every identifier, no delta lifecycle event is emitted after   *)
(* that identifier's end event unless a new start event for it has been    *)
(* emitted in between (start-before-delta-before-end holds for each        *)
(* open/close cycle): between an end event and a later delta event of the  *)
(* same kind and identifier lies a start event of that kind and identifier.*)
(***************************************************************************)
C30_NoDeltaAfterEndWithoutStart ==
    \A m, n \in 1..Len(out) :
        (/\ m < n
         /\ out[n].type \in DeltaTypes
         /\ out[m].type = EndOf(out[n].type)
         /\ out[m].id = out[n].id)
        => \E k \in (m + 1)..(n - 1) :
              /\ out[k].type = StartOf(out[n].type)
              /\ out[k].id = out[n].id

(***************************************************************************)
(* C31.  No identifier receives two end events of the same kind without a  *)
(* start event in between, including when an item-done, a reasoning-       *)
(* summary-part-done or a function-call-arguments-done event is delivered  *)
(* twice for the same identifier: between two end events of one kind and   *)
(* identifier lies a start event of that kind and identifier.              *)
(***************************************************************************)
C31_NoSecondEndWithoutStart ==
    \A m, n \in 1..Len(out) :
        (/\ m < n
         /\ out[m].type \in EndTypes
         /\ out[n].type = out[m].type
         /\ out[n].id = out[m].id)
        => \E k \in (m + 1)..(n - 1) :
              /\ out[k].type = StartOf(out[m].type)
              /\ out[k].id = out[m].id

(***************************************************************************)
(* C32.  After every processed wire event each active set contains exactly *)
(* the identifiers whose start event has been emitted and whose end event  *)
(* has not, and an identifier is a key of a buffer map if and only if a    *)
(* start event has been emitted for it at some point.  A reasoning item is *)
(* started (ended) by the events of its summary parts.                     *)
(***************************************************************************)
\* the identifiers the lifecycle events of item i carry, per kind
EventIdsOf(t, i) ==
    IF StartOf(t) = "reasoning-start"
    THEN {PartId(i, k) : k \in SummaryIndices}
    ELSE {i}

\* a start event of t's kind has been emitted for item i
EverStarted(t, i) ==
    \E p \in EventIdsOf(t, i) : Positions(StartOf(t), p) # {}

\* a start event of t's kind has been emitted for item i and no end event
\* of that kind follows it
StillOpen(t, i) ==
    \E p \in EventIdsOf(t, i) :
        \E s \in Positions(StartOf(t), p) :
            \A e \in Positions(EndOf(t), p) : e < s

C32_ActiveSetsAndBuffersMatchEvents ==
    \A i \in Ids :
        /\ i \in streamParseState.activeTextItems
              <=> StillOpen("text-start", i)
        /\ i \in streamParseState.activeReasoningItems
              <=> StillOpen("reasoning-start", i)
        /\ i \in streamParseState.activeToolCalls
              <=> StillOpen("tool-input-start", i)
        /\ MapHas(streamParseState.textBuffers, i)
              <=> EverStarted("text-start", i)
        /\ MapHas(streamParseState.reasoningBuffers, i)
              <=> EverStarted("reasoning-start", i)
        /\ MapHas(streamParseState.toolCallBuffers, i)
              <=> EverStarted("tool-input-start", i)

(***************************************************************************)
(* C33.  All lifecycle events of one function call (tool-input-start,      *)
(* tool-input-delta, tool-input-end and tool-call) carry the same          *)
(* caller-visible call identifier (the item's call_id), even though the    *)
(* wire's argument events address the call by its item identifier.         *)
(***************************************************************************)
\* the function_call items announced on the wire so far
AnnouncedCalls ==
    {wire[n].value.item :
        n \in {k \in 1..Len(wire) :
                 /\ IsType(wire[k], "response.output_item.added")
                 /\ wire[k].value.item.type = "function_call"}}

\* the identifier a tool lifecycle event carries
CarriedId(e) == IF e.type = "tool-call" THEN e.toolCallId ELSE e.id

ToolEventTypes ==
    {"tool-input-start", "tool-input-delta", "tool-input-end", "tool-call"}

C33_ToolEventsCarryCallId ==
    \A item \in AnnouncedCalls :
        \A n \in 1..Len(out) :
            (/\ out[n].type \in ToolEventTypes
             /\ CarriedId(out[n]) \in {item.id, item.call_id})
            => CarriedId(out[n]) = item.call_id

(***************************************************************************)
(* C34.  On first sight of a function_call item whose initial argument     *)
(* string is non-empty, a tool-input-delta carrying that string is emitted *)
(* right after tool-input-start and the completion test is applied         *)
(* immediately: initial arguments that already parse yield tool-input-end  *)
(* and tool-call in the same step, without any further wire event.         *)
(***************************************************************************)
InitialArgumentsAreStreamed ==
    (/\ ConsumesType("response.output_item.added")
     /\ wire'[Len(wire')].value.item.type = "function_call"
     /\ wire'[Len(wire')].value.item.arguments # <<>>
     /\ wire'[Len(wire')].value.item \notin AnnouncedCalls)
    => LET item == wire'[Len(wire')].value.item
           evs  == Enqueued
       IN  /\ Len(evs) >= 2
           /\ evs[1].type = "tool-input-start"
           /\ evs[2].type = "tool-input-delta"
           /\ evs[2].delta = item.arguments
           /\ JsonParses(item.arguments)
                 => /\ Len(evs) = 4
                    /\ evs[3].type = "tool-input-end"
                    /\ evs[4].type = "tool-call"
                    /\ evs[4].input = item.arguments

C34_InitialArgumentsAreStreamed == [][InitialArgumentsAreStreamed]_vars

(***************************************************************************)
(* C35.  On item-done for a reasoning item, reasoning-end is emitted for   *)
(* exactly those summary parts whose status is active or can-conclude      *)
(* (none for concluded parts), each once, in ascending index order, and    *)
(* the item's summary-part registry is then discarded.                     *)
(***************************************************************************)
ReasoningDoneClosesOpenParts ==
    \A i \in Ids :
        (/\ ConsumesType("response.output_item.done")
         /\ wire'[Len(wire')].value.item.id = i
         /\ itemTypes'[i] = "reasoning"
         /\ MapHas(activeReasoning, i))
        => LET parts == activeReasoning[i].summaryParts
               open  == {k \in DOMAIN parts :
                            parts[k] \in {"active", "can-conclude"}}
               evs   == Enqueued
           IN  /\ \A n \in 1..Len(evs) :
                     /\ evs[n].type = "reasoning-end"
                     /\ \E k \in open : evs[n].id = PartId(i, k)
               /\ \A k \in open :
                     Cardinality({n \in 1..Len(evs) :
                                     evs[n].id = PartId(i, k)}) = 1
               /\ \A m, n \in 1..Len(evs) :
                     m < n => \E k, l \in open :
                                 /\ k < l
                                 /\ evs[m].id = PartId(i, k)
                                 /\ evs[n].id = PartId(i, l)
               /\ ~MapHas(activeReasoning', i)

C35_ReasoningDoneClosesOpenParts == [][ReasoningDoneClosesOpenParts]_vars

\* a reasoning item was closed whose first part had been concluded before and
\* whose second part was still open: only the second part is ended
C35_Witness ==
    /\ Len(wire) >= 1
    /\ IsType(wire[Len(wire)], "response.output_item.done")
    /\ wire[Len(wire)].value.item.id = "a"
    /\ MapHas(itemTypes, "a") /\ itemTypes["a"] = "reasoning"
    /\ ~MapHas(activeReasoning, "a")
    /\ Len(out) >= 2
    /\ out[Len(out)].type = "reasoning-end"
    /\ out[Len(out)].id = PartId("a", 1)
    /\ out[Len(out) - 1].type # "reasoning-end"
    /\ Cardinality(Positions("reasoning-end", PartId("a", 0))) = 1

(***************************************************************************)
(* C36.  A content-part-done event never causes a text-end lifecycle       *)
(* event; text-end for a message item is emitted only by that item's       *)
(* item-done event.                                                        *)
(***************************************************************************)
TextEndOnlyFromItemDone ==
    \A n \in 1..Len(Enqueued) :
        Enqueued[n].type = "text-end"
        => /\ ConsumesType("response.output_item.done")
           /\ wire'[Len(wire')].value.item.id = Enqueued[n].id

DuplicateReasoningAddedIsNoOp ==
    \A i \in Ids :
        (/\ ConsumesType("response.output_item.added")
         /\ wire'[Len(wire')].value.item.type = "reasoning"
         /\ wire'[Len(wire')].value.item.id = i
         /\ MapHas(activeReasoning, i))
        => /\ Enqueued = <<>>
           /\ MapHas(activeReasoning', i)
           /\ activeReasoning'[i].summaryParts = activeReasoning[i].summaryParts
           /\ activeReasoning'[i].encryptedContent
                 = activeReasoning[i].encryptedContent

C37_DuplicateReasoningAddedIsNoOp == [][DuplicateReasoningAddedIsNoOp]_vars

(***************************************************************************)
(* C38.  On item-done the item's kind is the one recorded in the side      *)
(* table (at item-added time); only when no kind was recorded is it taken  *)
(* from the done event's own payload, and the item is then closed          *)
(* according to the resolved kind: a message gets its text-end, a          *)
(* reasoning item only reasoning-end events, any other kind nothing.       *)
(***************************************************************************)
ItemDoneResolvesRecordedKind ==
    \A i \in Ids :
        (/\ ConsumesType("response.output_item.done")
         /\ wire'[Len(wire')].value.item.id = i)
        => LET payload  == wire'[Len(wire')].value.item.type
               resolved == IF MapHas(itemTypes, i) THEN itemTypes[i]
                           ELSE payload
               evs      == Enqueued
           IN  /\ MapHas(itemTypes', i) /\ itemTypes'[i] = resolved
               /\ resolved = "message"
                     => /\ Len(evs) = 1
                        /\ evs[1].type = "text-end" /\ evs[1].id = i
               /\ resolved = "reasoning"
                     => \A n \in 1..Len(evs) : evs[n].type = "reasoning-end"
               /\ resolved \notin {"message", "reasoning"} => evs = <<>>

C38_ItemDoneResolvesRecordedKind == [][ItemDoneResolvesRecordedKind]_vars

\* an item announced as a function call was closed by a done event whose
\* payload calls it a message: the recorded kind won and no text-end was sent
C38_Witness ==
    /\ Len(wire) >= 2
    /\ IsType(wire[Len(wire)], "response.output_item.done")
    /\ wire[Len(wire)].value.item.id = "a"
    /\ wire[Len(wire)].value.item.type = "message"
    /\ IsType(wire[Len(wire) - 1], "response.output_item.added")
    /\ wire[Len(wire) - 1].value.item.id = "a"
    /\ MapHas(itemTypes, "a") /\ itemTypes["a"] = "function_call"
    /\ Positions("text-end", "a") = {}

(***************************************************************************)
(* C39.  A wire event whose type tag is not one of the known kinds is a    *)
(* recoverable no-op: it emits no lifecycle event, changes no session      *)
(* state and does not alter the finish reason.                             *)
(***************************************************************************)
\* the type literals of nordlysResponseStreamEventSchema, a closed z.union
SchemaTypes == HandledTypes \cup {"response.in_progress"}

\* validation of a decoded wire event against the schema: the ParseResult
\* the transformer receives
safeValidateChunk(raw) ==
    IF raw.type \in SchemaTypes THEN Ok(raw) ELSE FailedChunk

\* a wire event with a type tag outside the union
UnknownEvent == [type |-> "response.queued"]

UnknownTagIsNoOp ==
    (/\ Len(wire') = Len(wire) + 1
     /\ wire'[Len(wire')] = safeValidateChunk(UnknownEvent))
    => /\ Lifecycle(Enqueued) = <<>>
       /\ UNCHANGED <<streamParseState, ongoingToolCalls, itemTypes,
                      activeReasoning, hasFunctionCall, usage, responseId,
                      serviceTier>>
       /\ finishReason' = finishReason

C39_UnknownTagIsNoOp == [][UnknownTagIsNoOp]_vars

(***************************************************************************)
(* The argument-completion test as a function of its arguments: the test   *)
(* is applied to a call identifier and a parse state whose tool-call       *)
(* buffer map is empty or holds one call with a bounded argument string.   *)
(***************************************************************************)
MaxArgLen == 3

ArgumentChars == {"{", "}", "1", " "}

ArgumentStrings == UNION {[1..n -> ArgumentChars] : n \in 0..MaxArgLen}

\* createStreamState() with at most one buffered call
BufferStates ==
    {createStreamState} \cup
    {[createStreamState EXCEPT
        !.toolCallBuffers =
            MapSet(@, "a", [id |-> "call-a", name |-> "tool",
                            arguments |-> s])] : s \in ArgumentStrings}

CompletionInputs ==
    {[toolCallId |-> "a", state |-> st] : st \in BufferStates}

InitComplete ==
    /\ StreamIdle
    /\ input \in CompletionInputs
    /\ output = None

TestComplete ==
    /\ output = None
    /\ output' = Some(isToolCallComplete(input.toolCallId, input.state))
    /\ UNCHANGED <<input, StreamVars>>

\* the test is applied to another buffer
NextBuffer ==
    /\ output # None
    /\ input' \in CompletionInputs
    /\ output' = None
    /\ UNCHANGED StreamVars

NextComplete ==
    \/ TestComplete
    \/ NextBuffer

SpecComplete == InitComplete /\ [][NextComplete]_vars

\* the string is empty or consists of whitespace only
Blank(s) == \A k \in 1..Len(s) : s[k] = " "

(***************************************************************************)
(* C40.  The argument-completion test reports not complete for an empty    *)
(* argument string, for a whitespace-only argument string, and for a call  *)
(* identifier that has no buffer, so no tool-call is fired on an empty     *)
(* initial buffer.                                                         *)
(***************************************************************************)
C40_BlankOrMissingIsNotComplete ==
    output # None =>
        LET buffers == input.state.toolCallBuffers
            id      == input.toolCallId
        IN  /\ ~MapHas(buffers, id) => output = Some(FALSE)
            /\ (MapHas(buffers, id) /\ Blank(buffers[id].arguments))
                  => output = Some(FALSE)

\* the test was applied to a buffer holding only whitespace and said no
C40_Witness ==
    /\ output = Some(FALSE)
    /\ MapHas(input.state.toolCallBuffers, "a")
    /\ input.state.toolCallBuffers["a"].arguments = <<" ", " ">>

=============================================================================
